---- MODULE Spec2Model ----
(***************************************************************************)
(* A model of the flight-time map: the radial distortion engine            *)
(* (js/algorithms/mds.js), the mesh deformer (js/algorithms/               *)
(* meshDeformer.js) and the renderer / transition manager that drive them  *)
(* (js/visualization/rubberSheetMode.js, transitionManager.js).            *)
(*                                                                         *)
(* Numbers.  A JavaScript number is modelled as a record [n, d]:           *)
(*   d > 0          the rational n/d in lowest terms (0 is 0/1),           *)
(*   d = 0, n = 1   Infinity,   d = 0, n = -1   -Infinity,                 *)
(*   d = 0, n = 0   NaN.                                                   *)
(* Arithmetic on rationals is exact; the only rounding is in Sqrt, whose   *)
(* result is rounded down to a multiple of 1/RootScale when it is not      *)
(* rational, and in the inverse-distance weight, which is rounded to a     *)
(* multiple of 1/WeightScale (a double rounds every operation; the model   *)
(* rounds only where the exact value is irrational or unbounded in size).  *)
(***************************************************************************)
EXTENDS Integers, Sequences, FiniteSets, TLC

\* ------------------------------------------------------------------ bounds
\* precision of square roots: results are multiples of 1/RootScale
RootScale == 10
\* precision of inverse-distance weights: multiples of 1/WeightScale
WeightScale == 1000000

\* ------------------------------------------------------------- arithmetic
RECURSIVE GCD(_, _)
GCD(a, b) == IF b = 0 THEN a ELSE GCD(b, a % b)

Abs(i) == IF i < 0 THEN -i ELSE i

\* the rational n/d (d # 0) in lowest terms with a positive denominator
Norm(n, d) ==
    LET g == GCD(Abs(n), Abs(d))
        s == IF d < 0 THEN -1 ELSE 1
    IN  [n |-> s * (n \div g), d |-> s * (d \div g)]

Int2Num(i) == [n |-> i, d |-> 1]
Zero == Int2Num(0)
One == Int2Num(1)
Infinity == [n |-> 1, d |-> 0]
NegInfinity == [n |-> -1, d |-> 0]
NaN == [n |-> 0, d |-> 0]

\* the global isFinite(v) for a number v
isFinite(a) == a.d > 0
IsNaN(a) == a.d = 0 /\ a.n = 0
Sign(a) == IF a.n > 0 THEN 1 ELSE IF a.n < 0 THEN -1 ELSE 0
SignedInf(s) == IF s > 0 THEN Infinity ELSE NegInfinity

\* a + b
Add(a, b) ==
    IF IsNaN(a) \/ IsNaN(b) THEN NaN
    ELSE IF ~isFinite(a) /\ ~isFinite(b) THEN (IF a = b THEN a ELSE NaN)
    ELSE IF ~isFinite(a) THEN a
    ELSE IF ~isFinite(b) THEN b
    ELSE LET g == GCD(a.d, b.d)
         IN  Norm(a.n * (b.d \div g) + b.n * (a.d \div g), a.d * (b.d \div g))

Neg(a) == [n |-> -a.n, d |-> a.d]

\* a - b
Sub(a, b) == Add(a, Neg(b))

\* a * b
Mul(a, b) ==
    IF IsNaN(a) \/ IsNaN(b) THEN NaN
    ELSE IF ~isFinite(a) \/ ~isFinite(b)
         THEN (IF Sign(a) * Sign(b) = 0 THEN NaN ELSE SignedInf(Sign(a) * Sign(b)))
    ELSE LET g1 == GCD(Abs(a.n), b.d)
             g2 == GCD(Abs(b.n), a.d)
         IN  Norm((a.n \div g1) * (b.n \div g2), (a.d \div g2) * (b.d \div g1))

\* a / b (JavaScript's /: x/0 is +-Infinity, 0/0 is NaN, x/Infinity is 0)
Div(a, b) ==
    IF IsNaN(a) \/ IsNaN(b) THEN NaN
    ELSE IF ~isFinite(b) THEN (IF isFinite(a) THEN Zero ELSE NaN)
    ELSE IF b.n = 0 THEN (IF Sign(a) = 0 THEN NaN ELSE SignedInf(Sign(a)))
    ELSE Mul(a, Norm(b.d, b.n))

\* a < b (false when either is NaN)
Lt(a, b) ==
    IF IsNaN(a) \/ IsNaN(b) THEN FALSE
    ELSE IF ~isFinite(a) \/ ~isFinite(b)
         THEN (IF a = b THEN FALSE
               ELSE IF a = NegInfinity \/ b = Infinity THEN TRUE ELSE FALSE)
    ELSE Sign(Sub(a, b)) < 0

Gt(a, b) == Lt(b, a)
Ge(a, b) == Lt(b, a) \/ (a = b /\ ~IsNaN(a))

\* floor of the square root of a natural number
RECURSIVE ISqrtIn(_, _, _)
ISqrtIn(k, lo, hi) ==
    IF lo = hi THEN lo
    ELSE LET mid == (lo + hi + 1) \div 2
         IN  IF mid * mid <= k THEN ISqrtIn(k, mid, hi) ELSE ISqrtIn(k, lo, mid - 1)
ISqrt(k) == ISqrtIn(k, 0, IF k < 46340 THEN k ELSE 46340)

IsSquare(k) == ISqrt(k) * ISqrt(k) = k

\* Math.sqrt of a finite a >= 0: exact when rational, else rounded down
Sqrt(a) ==
    IF IsSquare(a.n) /\ IsSquare(a.d) THEN Norm(ISqrt(a.n), ISqrt(a.d))
    ELSE Norm(ISqrt((a.n * RootScale * RootScale) \div a.d), RootScale)

\* a rounded down to a multiple of 1/scale (a finite)
RoundTo(a, scale) ==
    IF ~isFinite(a) THEN a
    ELSE LET g == GCD(a.d, scale)
         IN  Norm((a.n * (scale \div g)) \div (a.d \div g), scale)

RECURSIVE IntPow(_, _)
IntPow(a, k) == IF k = 0 THEN One ELSE Mul(a, IntPow(a, k - 1))

\* Math.pow(a, power) for a finite a >= 0 and a power that is a whole number
\* or a whole number plus one half (2.5 is the only power the program uses)
Pow(a, power) ==
    IF power.d = 1 THEN IntPow(a, power.n)
    ELSE Mul(IntPow(a, (power.n - 1) \div 2), Sqrt(a))

\* Math.hypot(dx, dy)
Hypot(dx, dy) == Sqrt(Add(Mul(dx, dx), Mul(dy, dy)))

\* Math.max(...list): -Infinity for an empty list, NaN if any entry is NaN
RECURSIVE MathMax(_)
MathMax(list) ==
    IF list = <<>> THEN NegInfinity
    ELSE LET h == Head(list)
             m == MathMax(Tail(list))
         IN  IF IsNaN(h) \/ IsNaN(m) THEN NaN ELSE IF Lt(m, h) THEN h ELSE m

\* Array.prototype.filter
Filter(list, Keep(_)) == SelectSeq(list, Keep)

\* Math.atan2(dy, dx): the angle is kept as the direction it denotes
Atan2(dy, dx) == [dx |-> dx, dy |-> dy]
\* Math.cos / Math.sin of such an angle
Cos(angle) == Div(angle.dx, Hypot(angle.dx, angle.dy))
Sin(angle) == Div(angle.dy, Hypot(angle.dx, angle.dy))

\* ------------------------------------------------------------------ state
VARIABLES
    call,   \* the engine call under study: its name and its arguments
    pc,     \* "call" before that call is made, "done" once it has returned
    ret     \* what that call returned (<<>> before it has returned)

pureVars == <<call, pc, ret>>

\* a position {x, y}
Pt(x, y) == [x |-> x, y |-> y]

\* ------------------------------------------------- MDS (js/algorithms/mds.js)
\* const dampening = 0.6
dampening == Norm(6, 10)

\* geoDistances: Math.hypot(p.geoX - originX, p.geoY - originY) for every p
geoDistances(geoPositions, originIndex) ==
    [i \in 1..Len(geoPositions) |->
        Hypot(Sub(geoPositions[i].geoX, geoPositions[originIndex].geoX),
              Sub(geoPositions[i].geoY, geoPositions[originIndex].geoY))]

PositiveDist(d) == Gt(d, Zero)
\* maxGeoDist = Math.max(...geoDistances.filter(d => d > 0))
maxGeoDist(dists) == MathMax(Filter(dists, PositiveDist))

PositiveFiniteTimeNoCheck(t) == Gt(t, Zero)
PositiveFiniteTime(t) == Gt(t, Zero) /\ isFinite(t)
\* maxTime = Math.max(...timesFromOrigin.filter(t => t > 0 && isFinite(t)))
maxTimeUnfiltered(timesFromOrigin) == MathMax(Filter(timesFromOrigin, PositiveFiniteTimeNoCheck))
maxTime(timesFromOrigin) == MathMax(Filter(timesFromOrigin, PositiveFiniteTime))

\* the origin stays in place: { x: originX, y: originY }
originDisplayed(origin) == Pt(origin.x, origin.y)
originPosition(origin) == Pt(origin.geoX, origin.geoY)

\* if (geoDist < 1 || !isFinite(travelTime)): the point is left where it is
skipsNearOnly(geoDist, travelTime) == Lt(geoDist, One)
skipsDistortion(geoDist, travelTime) == Lt(geoDist, One) \/ ~isFinite(travelTime)

\* expectedTime = geoDist * (maxTime / maxGeoDist)
expectedTime(geoDist, maxT, maxD) == Mul(geoDist, Div(maxT, maxD))

\* distortionFactor = 1 + (timeRatio - 1) * dampening
distortionInverted(timeRatio) == Sub(One, Mul(Sub(timeRatio, One), dampening))
distortionUndamped(timeRatio) == Add(One, Mul(Sub(timeRatio, One), Int2Num(2)))
distortionFactor(timeRatio) == Add(One, Mul(Sub(timeRatio, One), dampening))

\* the entries of a matrix, row after row
RECURSIVE entriesOf(_)
entriesOf(distances) ==
    IF distances = <<>> THEN <<>> ELSE Head(distances) \o entriesOf(Tail(distances))

\* sanitize's first loop: maxFinite after the values of list, started at start
RECURSIVE maxFiniteFrom(_, _)
maxFiniteFrom(start, list) ==
    IF list = <<>> THEN start
    ELSE maxFiniteFrom(IF isFinite(Head(list)) /\ Gt(Head(list), start)
                       THEN Head(list) ELSE start,
                       Tail(list))

\* const fallback = maxFinite * 1.5
fallbackAsMax(maxFinite) == maxFinite
fallbackOf(maxFinite) == Mul(maxFinite, Norm(3, 2))

\* row.map(val => isFinite(val) ? val : fallback) over every row
replaceNonFinite(distances, fallback) ==
    [i \in 1..Len(distances) |->
        [j \in 1..Len(distances[i]) |->
            IF isFinite(distances[i][j]) THEN distances[i][j] ELSE fallback]]

\* MDS.sanitize(distances)
sanitize(distances) ==
    replaceNonFinite(distances, fallbackOf(maxFiniteFrom(Zero, entriesOf(distances))))

\* MDS.powerScale(distances, power)
powerScale(distances, power) ==
    [i \in 1..Len(distances) |->
        [j \in 1..Len(distances[i]) |->
            Pow(MathMax(<< Zero, distances[i][j] >>), power)]]

\* MDS.computeRadialPositions(travelTimes, geoPositions, originIndex, viewport)
\* (indices are 1-based here, 0-based in the source)
computeRadialPositions(travelTimes, geoPositions, originIndex, viewport) ==
    LET origin == geoPositions[originIndex]
        originX == origin.geoX
        originY == origin.geoY
        timesFromOrigin == travelTimes[originIndex]
        dists == geoDistances(geoPositions, originIndex)
        maxD == maxGeoDist(dists)
        maxT == maxTime(timesFromOrigin)
        Position(i) ==
            LET pos == geoPositions[i]
                geoDist == dists[i]
                travelTime == timesFromOrigin[i]
                dx == Sub(pos.geoX, originX)
                dy == Sub(pos.geoY, originY)
                angle == Atan2(dy, dx)
                timeRatio == Div(travelTime, expectedTime(geoDist, maxT, maxD))
                newDist == Mul(geoDist, distortionFactor(timeRatio))
            IN  IF i = originIndex THEN originPosition(origin)
                ELSE IF skipsDistortion(geoDist, travelTime)
                     THEN Pt(pos.geoX, pos.geoY)
                ELSE Pt(Add(originX, Mul(Cos(angle), newDist)),
                        Add(originY, Mul(Sin(angle), newDist)))
    IN  [i \in 1..Len(geoPositions) |-> Position(i)]

\* MDS.computePositions: the pipeline the renderer calls
computePositions(travelTimes, geoPositions, originIndex, viewport) ==
    computeRadialPositions(travelTimes, geoPositions, originIndex, viewport)

\* ---------------------------- MeshDeformer (js/algorithms/meshDeformer.js)
\* CONFIG.rubberSheet (js/config.js)
boundarySampling == 25
gridSpacing == 40
interpolationPower == Norm(5, 2)

\* the values start, start + step, ... up to limit (below it when strict)
Steps(start, step, limit, strict) ==
    LET last == IF strict THEN limit - 1 ELSE limit
        count == IF last < start THEN 0 ELSE ((last - start) \div step) + 1
    IN  [k \in 1..count |-> start + (k - 1) * step]

\* the concatenation of a list of lists
RECURSIVE Flatten(_)
Flatten(lists) == IF lists = <<>> THEN <<>> ELSE Head(lists) \o Flatten(Tail(lists))

\* the caller's isInsideUS(x, y); "absent" when the caller passes none
CallInside(isInsideUS, x, y) == isInsideUS = "everywhere"

\* MeshDeformer.createMesh(airports, bounds, isInsideUS); delaunay is what
\* d3.Delaunay.from(points) returns for these points
createMesh(airports, bounds, isInsideUS, delaunay) ==
    LET spacing == boundarySampling
        airportPoints == [i \in 1..Len(airports) |->
            [x |-> airports[i].x, y |-> airports[i].y, type |-> "airport",
             index |-> i, code |-> airports[i].code]]
        Boundary(x, y) == [x |-> Int2Num(x), y |-> Int2Num(y), type |-> "boundary"]
        xs == Steps(0, spacing, bounds.width, FALSE)
        ys == Steps(spacing, spacing, bounds.height, TRUE)
        top == [k \in 1..Len(xs) |-> Boundary(xs[k], 0)]
        bottom == [k \in 1..Len(xs) |-> Boundary(xs[k], bounds.height)]
        left == [k \in 1..Len(ys) |-> Boundary(0, ys[k])]
        right == [k \in 1..Len(ys) |-> Boundary(bounds.width, ys[k])]
        gxs == Steps(gridSpacing, gridSpacing, bounds.width, TRUE)
        gys == Steps(gridSpacing, gridSpacing, bounds.height, TRUE)
        Column(x) ==
            LET kept == SelectSeq(gys,
                    LAMBDA y : isInsideUS = "absent" \/ CallInside(isInsideUS, x, y))
            IN  [k \in 1..Len(kept) |->
                    [x |-> Int2Num(x), y |-> Int2Num(kept[k]), type |-> "grid"]]
        grid == Flatten([k \in 1..Len(gxs) |-> Column(gxs[k])])
    IN  [points |-> airportPoints \o top \o bottom \o left \o right \o grid,
         delaunay |-> delaunay,
         airportCount |-> Len(airports)]

\* the sum of F(i) over i = 1..n
RECURSIVE SumTo(_, _)
SumTo(F(_), n) == IF n = 0 THEN Zero ELSE Add(SumTo(F, n - 1), F(n))

\* interpolatePosition's loop returns at the first control point whose
\* original is less than 1 away from the point: its index, 0 if there is none
lastCloseControl(point, originals) ==
    LET close == { i \in 1..Len(originals) :
            Lt(Hypot(Sub(originals[i].x, point.x), Sub(originals[i].y, point.y)), One) }
    IN  IF close = {} THEN 0 ELSE CHOOSE i \in close : \A j \in close : j <= i
firstCloseControl(point, originals) ==
    LET close == { i \in 1..Len(originals) :
            Lt(Hypot(Sub(originals[i].x, point.x), Sub(originals[i].y, point.y)), One) }
    IN  IF close = {} THEN 0 ELSE CHOOSE i \in close : \A j \in close : i <= j

\* weight = 1 / Math.pow(dist, power)
inverseDistanceWeight(dist, power) == RoundTo(Div(One, Pow(dist, power)), WeightScale)

\* MeshDeformer.interpolatePosition(point, originals, targets, power)
interpolatePosition(point, originals, targets, power) ==
    LET dist(i) == Hypot(Sub(originals[i].x, point.x), Sub(originals[i].y, point.y))
        weight(i) == inverseDistanceWeight(dist(i), power)
        dispX(i) == Sub(targets[i].x, originals[i].x)
        dispY(i) == Sub(targets[i].y, originals[i].y)
        TermX(i) == Mul(weight(i), Add(point.x, dispX(i)))
        TermY(i) == Mul(weight(i), Add(point.y, dispY(i)))
        sumWeightX == SumTo(TermX, Len(originals))
        sumWeightY == SumTo(TermY, Len(originals))
        sumWeight == SumTo(weight, Len(originals))
        close == firstCloseControl(point, originals)
    IN  IF close # 0 THEN Pt(targets[close].x, targets[close].y)
        ELSE Pt(Div(sumWeightX, sumWeight), Div(sumWeightY, sumWeight))

\* deformMesh's branch for one mesh point
deformPointNoAnchor(point, airportTargets, airportOriginals, power) ==
    IF point.type = "airport"
    THEN Pt(airportTargets[point.index].x, airportTargets[point.index].y)
    ELSE interpolatePosition(point, airportOriginals, airportTargets, power)
deformPointByPosition(point, airportTargets, airportOriginals, power) ==
    IF point.type = "boundary" THEN Pt(point.x, point.y)
    ELSE interpolatePosition(point, airportOriginals, airportTargets, power)
deformPoint(point, airportTargets, airportOriginals, power) ==
    IF point.type = "airport"
    THEN Pt(airportTargets[point.index].x, airportTargets[point.index].y)
    ELSE IF point.type = "boundary" THEN Pt(point.x, point.y)
    ELSE interpolatePosition(point, airportOriginals, airportTargets, power)

\* MeshDeformer.deformMesh(mesh, airportTargets, airportOriginals)
deformMesh(mesh, airportTargets, airportOriginals) ==
    LET power == interpolationPower
    IN  [i \in 1..Len(mesh.points) |->
            deformPoint(mesh.points[i], airportTargets, airportOriginals, power)]

\* ------------- RubberSheetMode.warpPoint (js/visualization/rubberSheetMode.js)
\* const power = 2.5
warpPowerSquare == Int2Num(2)
warpPower == Norm(5, 2)

\* RubberSheetMode.warpPoint(x, y, originalPositions, targetPositions, t)
warpPoint(x, y, originalPositions, targetPositions, t) ==
    LET dist(i) == Hypot(Sub(originalPositions[i].x, x), Sub(originalPositions[i].y, y))
        weight(i) == inverseDistanceWeight(dist(i), warpPower)
        dispX(i) == Mul(Sub(targetPositions[i].x, originalPositions[i].x), t)
        dispY(i) == Mul(Sub(targetPositions[i].y, originalPositions[i].y), t)
        TermX(i) == Mul(weight(i), Add(x, dispX(i)))
        TermY(i) == Mul(weight(i), Add(y, dispY(i)))
        sumWeightX == SumTo(TermX, Len(originalPositions))
        sumWeightY == SumTo(TermY, Len(originalPositions))
        sumWeight == SumTo(weight, Len(originalPositions))
        close == firstCloseControl(Pt(x, y), originalPositions)
    IN  IF close # 0
        THEN Pt(Add(originalPositions[close].x, dispX(close)),
                Add(originalPositions[close].y, dispY(close)))
        ELSE Pt(Div(sumWeightX, sumWeight), Div(sumWeightY, sumWeight))


\* dot product of (ax, ay) and (bx, by)
dot(ax, ay, bx, by) == Add(Mul(ax, bx), Mul(ay, by))

\* the last lines of barycentricCoords: the weights from the dot products
weightsFromDots(dot00, dot01, dot02, dot11, dot12) ==
    LET invDenom == Div(One, Sub(Mul(dot00, dot11), Mul(dot01, dot01)))
        w == Mul(Sub(Mul(dot11, dot02), Mul(dot01, dot12)), invDenom)
        v == Mul(Sub(Mul(dot00, dot12), Mul(dot01, dot02)), invDenom)
        u == Sub(Sub(One, v), w)
    IN  [u |-> u, v |-> v, w |-> w]

\* barycentricCoords with the roles of the edges p0-p1 and p0-p2 exchanged
barycentricEdgesSwapped(px, py, p0, p1, p2) ==
    LET v0x == Sub(p1.x, p0.x)
        v0y == Sub(p1.y, p0.y)
        v1x == Sub(p2.x, p0.x)
        v1y == Sub(p2.y, p0.y)
        v2x == Sub(px, p0.x)
        v2y == Sub(py, p0.y)
    IN  weightsFromDots(dot(v0x, v0y, v0x, v0y), dot(v0x, v0y, v1x, v1y),
                        dot(v0x, v0y, v2x, v2y), dot(v1x, v1y, v1x, v1y),
                        dot(v1x, v1y, v2x, v2y))

\* MeshDeformer.barycentricCoords(px, py, p0, p1, p2)
barycentricCoords(px, py, p0, p1, p2) ==
    LET v0x == Sub(p2.x, p0.x)
        v0y == Sub(p2.y, p0.y)
        v1x == Sub(p1.x, p0.x)
        v1y == Sub(p1.y, p0.y)
        v2x == Sub(px, p0.x)
        v2y == Sub(py, p0.y)
    IN  weightsFromDots(dot(v0x, v0y, v0x, v0y), dot(v0x, v0y, v1x, v1y),
                        dot(v0x, v0y, v2x, v2y), dot(v1x, v1y, v1x, v1y),
                        dot(v1x, v1y, v2x, v2y))

\* the barycentric coordinates of (x, y) in the k-th triangle of the mesh
baryIn(x, y, mesh, k) ==
    barycentricCoords(x, y, mesh.points[mesh.delaunay.triangles[k][1]],
                            mesh.points[mesh.delaunay.triangles[k][2]],
                            mesh.points[mesh.delaunay.triangles[k][3]])

\* bary.u >= 0 && bary.v >= 0 && bary.w >= 0
nonNegative(bary) == Ge(bary.u, Zero) /\ Ge(bary.v, Zero) /\ Ge(bary.w, Zero)

\* the first index of a set of indices, 0 if it is empty
firstOf(found) == IF found = {} THEN 0 ELSE CHOOSE k \in found : \A j \in found : k <= j

\* the scan of transformPoint: the first triangle in whose coordinates
\* u >= 0, v >= 0 and w >= 0 hold for (x, y); 0 if there is none
containingTriangle(x, y, mesh) ==
    firstOf({ k \in 1..Len(mesh.delaunay.triangles) : nonNegative(baryIn(x, y, mesh, k)) })

\* the interpolation inside the containing triangle
interpolateInTriangle(bary, d0, d1, d2) ==
    Pt(Add(Add(Mul(bary.u, d0.x), Mul(bary.v, d1.x)), Mul(bary.w, d2.x)),
       Add(Add(Mul(bary.u, d0.y), Mul(bary.v, d1.y)), Mul(bary.w, d2.y)))

IsAirportPoint(pt) == pt.type = "airport"

\* transformPoint once its scan has ended at triangle k (0: at none)
transformPointIn(k, x, y, mesh, deformedPositions) ==
    IF k # 0
    THEN interpolateInTriangle(baryIn(x, y, mesh, k),
                               deformedPositions[mesh.delaunay.triangles[k][1]],
                               deformedPositions[mesh.delaunay.triangles[k][2]],
                               deformedPositions[mesh.delaunay.triangles[k][3]])
    ELSE interpolatePosition(Pt(x, y), SelectSeq(mesh.points, IsAirportPoint),
             SubSeq(deformedPositions, 1, mesh.airportCount), interpolationPower)

\* MeshDeformer.transformPoint(x, y, mesh, originalPositions, deformedPositions)
\* (mesh.delaunay.triangles is a list of index triples here, a flat array of
\* indices in the source)
transformPoint(x, y, mesh, originalPositions, deformedPositions) ==
    transformPointIn(containingTriangle(x, y, mesh), x, y, mesh, deformedPositions)

\* ------------------------------------------------------------- the page
VARIABLES
    \* MapRenderer (js/visualization/rubberSheetMode.js)
    selectedOrigin,     \* code of the selected origin, "null" if none
    currentMode,        \* "geographic" or "flightTime"
    visualStyle,        \* "points" or "rubberSheet"
    airportFilter,      \* the count last given to applyAirportFilter
    airports,           \* the visible airports, in rank order
    geoPositions,       \* one {code, x, y, geoX, geoY} per visible airport
    currentPositions,   \* the layout the renderer holds as current
    \* RubberSheetMode
    isActive,
    \* TransitionManager (transitionManager.js)
    isTransitioning,
    \* the host's timer queue: the completion callbacks not yet run, in the
    \* order in which they will run
    timers,
    \* the page
    ghostShown,         \* the ghost (reference) states are rendered
    activeButtons,      \* the view-mode buttons that carry class "active"
    circles,            \* the rendered .airport circles: {code, classes}
    message,            \* a .temp-message element is in the document
    url,                \* the query parameters of window.location: {key, value}
    \* DataLoader (js/data/dataLoader.js)
    heap,               \* the row arrays in memory; the first ones are the rows
                        \* of cache.matrix.matrix
    \* history
    lastRequest         \* the target and branch of the latest transition()

pageVars == <<selectedOrigin, currentMode, visualStyle, airportFilter, airports,
              geoPositions, currentPositions, isActive, isTransitioning, timers,
              ghostShown, activeButtons, circles, message, url, lastRequest, heap>>
vars == <<call, pc, ret, selectedOrigin, currentMode, visualStyle, airportFilter,
          airports, geoPositions, currentPositions, isActive, isTransitioning,
          timers, ghostShown, activeButtons, circles, message, url, lastRequest,
          heap>>

\* the viewport the renderer passes (CONFIG.width, CONFIG.height, CONFIG.mds.padding)
Viewport == [width |-> 975, height |-> 610, padding |-> 60]

\* CONFIG.defaults.airportCount
airportCount == 30

\* the airports DataLoader.loadAll delivers, in rank order
allAirports == << [code |-> "DEN"], [code |-> "ORD"], [code |-> "HNL"] >>

\* the choices of the airport-filter select
FilterOptions == {2, 3}

\* the cached travel-time matrix: its airport codes, the minutes between them
\* and the pairs a direct flight joins
cache ==
    [matrix |->
        [airports |-> << "DEN", "ORD", "HNL" >>,
         matrix |-> << << Int2Num(0), Int2Num(2), Int2Num(7) >>,
                       << Int2Num(2), Int2Num(0), Int2Num(9) >>,
                       << Int2Num(7), Int2Num(9), Int2Num(0) >> >>,
         directFlights |-> << << FALSE, TRUE, TRUE >>,
                              << TRUE, FALSE, FALSE >>,
                              << TRUE, FALSE, FALSE >> >>]]

\* d3.geoAlbersUsa applied to an airport's (lon, lat): HNL falls outside the
\* composite projection (the library answers null), the others are projected
projects(airport) == airport.code # "HNL"
projection(airport) ==
    CASE airport.code = "DEN" -> Pt(Int2Num(100), Int2Num(100))
      [] airport.code = "ORD" -> Pt(Int2Num(103), Int2Num(104))

\* Array.prototype.indexOf / findIndex, 1-based; 0 stands for JavaScript's -1
indexOf(list, x) ==
    IF \E i \in 1..Len(list) : list[i] = x
    THEN CHOOSE i \in 1..Len(list) : list[i] = x /\ \A j \in 1..(i - 1) : list[j] # x
    ELSE 0

\* slice that keeps the whole array
sliceAll(list, count) == list

\* Array.prototype.slice(0, count)
slice(list, count) == SubSeq(list, 1, IF count < Len(list) THEN count ELSE Len(list))

\* DataLoader.hasDirectFlight
hasDirectFlight(fromCode, toCode) ==
    IF indexOf(cache.matrix.airports, fromCode) = 0
       \/ indexOf(cache.matrix.airports, toCode) = 0
    THEN FALSE
    ELSE cache.matrix.directFlights[indexOf(cache.matrix.airports, fromCode)]
                                   [indexOf(cache.matrix.airports, toCode)]

Found(k) == k > 0
\* DataLoader.getSubMatrix: the rows and columns of the listed codes, the
\* codes the matrix does not know dropped
getSubMatrix(codes) ==
    LET indices == SelectSeq([i \in 1..Len(codes) |-> indexOf(cache.matrix.airports, codes[i])],
                             Found)
    IN  [i \in 1..Len(indices) |->
            [j \in 1..Len(indices) |-> cache.matrix.matrix[indices[i]][indices[j]]]]

\* the fields of the page's objects together, as the methods below pass them on
World ==
    [selectedOrigin |-> selectedOrigin, currentMode |-> currentMode,
     visualStyle |-> visualStyle, airportFilter |-> airportFilter,
     airports |-> airports, geoPositions |-> geoPositions,
     currentPositions |-> currentPositions, isActive |-> isActive,
     isTransitioning |-> isTransitioning, timers |-> timers,
     ghostShown |-> ghostShown, activeButtons |-> activeButtons,
     circles |-> circles, message |-> message, url |-> url,
     lastRequest |-> lastRequest]

\* isEmbedMode(): the location carries embed=true
isEmbedMode(w) == [key |-> "embed", value |-> "true"] \in w.url

\* updateURL(key, value) of app.js; "undefined" stands for an argument not given
updateURL(w, key, value) ==
    LET others == { p \in w.url : p.key # key }
        tidy == \/ key = "mode" /\ value = "geographic"
                \/ key = "airports" /\ value = "150"
                \/ key = "directOnly" /\ value = "false"
    IN  IF isEmbedMode(w) THEN w
        ELSE [w EXCEPT !.url = IF value \notin {"null", "undefined", ""} /\ ~tidy
                               THEN others \cup {[key |-> key, value |-> value]}
                               ELSE others]

\* the classes updateAirportColors gives the circle of one airport
colorClasses(origin, code) ==
    IF code = origin THEN {"origin"}
    ELSE IF hasDirectFlight(origin, code) THEN {"direct"}
    ELSE {"connection"}

\* MapRenderer.updateAirportColors
updateAirportColors(w) ==
    [w EXCEPT !.circles =
        [i \in 1..Len(w.circles) |->
            [code |-> w.circles[i].code,
             classes |-> IF w.selectedOrigin = "null"
                         THEN w.circles[i].classes \ {"origin", "direct", "connection"}
                         ELSE colorClasses(w.selectedOrigin, w.circles[i].code)]]]

\* the classes of the circle bound to code, none if there is no such circle
classesOf(drawn, code) ==
    UNION { drawn[i].classes : i \in { j \in 1..Len(drawn) : drawn[j].code = code } }

\* MapRenderer.renderAirports: the circles joined to geoPositions by code
renderAirports(w) ==
    updateAirportColors(
        [w EXCEPT !.circles =
            [i \in 1..Len(w.geoPositions) |->
                [code |-> w.geoPositions[i].code,
                 classes |-> (classesOf(w.circles, w.geoPositions[i].code) \ {"origin"})
                             \cup (IF w.geoPositions[i].code = w.selectedOrigin
                                   THEN {"origin"} ELSE {})]]])

\* Controls.showMessage
showMessage(w) == [w EXCEPT !.message = TRUE]

\* MapRenderer.applyAirportFilter
applyAirportFilter(w, count) ==
    LET shown == slice(allAirports, count)
        geo == [i \in 1..Len(shown) |->
                  IF projects(shown[i])
                  THEN [code |-> shown[i].code,
                        x |-> projection(shown[i]).x, y |-> projection(shown[i]).y,
                        geoX |-> projection(shown[i]).x, geoY |-> projection(shown[i]).y]
                  ELSE [code |-> shown[i].code,
                        x |-> Norm(Viewport.width, 2), y |-> Norm(Viewport.height, 2),
                        geoX |-> Norm(Viewport.width, 2), geoY |-> Norm(Viewport.height, 2)]]
    IN  [w EXCEPT !.airportFilter = count,
                  !.airports = shown,
                  !.geoPositions = geo,
                  !.currentPositions = [i \in 1..Len(geo) |-> Pt(geo[i].x, geo[i].y)]]

\* MapRenderer.getCurrentMatrix
getCurrentMatrix(w) == getSubMatrix([i \in 1..Len(w.airports) |-> w.airports[i].code])

\* MapRenderer.getOriginIndex (0 when the origin is not among the visible airports)
getOriginIndex(w) == indexOf([i \in 1..Len(w.airports) |-> w.airports[i].code], w.selectedOrigin)

\* TransitionManager.transition(targetPositions, onComplete): every caller's
\* onComplete is "renderer.currentPositions = targetPositions", kept in the
\* timer as that target
transition(w, targetPositions) ==
    [w EXCEPT !.isTransitioning = TRUE,
              !.geoPositions =
                  [i \in 1..Len(w.geoPositions) |->
                      IF i <= Len(targetPositions)
                      THEN [w.geoPositions[i] EXCEPT !.x = targetPositions[i].x,
                                                     !.y = targetPositions[i].y]
                      ELSE w.geoPositions[i]],
              !.timers = Append(w.timers, [target |-> targetPositions]),
              !.lastRequest = [target |-> targetPositions,
                               interrupted |-> w.isTransitioning,
                               pending |-> Len(w.timers)]]

\* PointsMode.update
PointsMode_update(w) ==
    IF w.selectedOrigin = "null" THEN w
    ELSE IF getOriginIndex(w) = 0 THEN w
    ELSE transition(w, computePositions(getCurrentMatrix(w), w.geoPositions,
                                        getOriginIndex(w), Viewport))

\* RubberSheetMode.update
RubberSheetMode_update(w) ==
    IF w.selectedOrigin = "null" THEN w
    ELSE IF getOriginIndex(w) = 0 THEN w
    ELSE transition(w, computePositions(getCurrentMatrix(w), w.geoPositions,
                                        getOriginIndex(w), Viewport))

\* RubberSheetMode.activate, RubberSheetMode.deactivate
activate(w) == [w EXCEPT !.isActive = TRUE]
deactivate(w) == [w EXCEPT !.isActive = FALSE]

\* MapRenderer.updateFlightTimeView
updateFlightTimeView(w) ==
    IF w.selectedOrigin = "null" THEN w
    ELSE IF w.visualStyle = "points" THEN PointsMode_update(w)
    ELSE RubberSheetMode_update(w)

\* a transition to where the airports are drawn now
transitionToDrawn(w) ==
    transition(w, [i \in 1..Len(w.geoPositions) |->
                      Pt(w.geoPositions[i].x, w.geoPositions[i].y)])

\* MapRenderer.transitionToGeographic
transitionToGeographic(w) ==
    transition(w, [i \in 1..Len(w.geoPositions) |->
                      Pt(w.geoPositions[i].geoX, w.geoPositions[i].geoY)])

\* MapRenderer.setOrigin
setOrigin(w, airportCode) ==
    LET selected == updateAirportColors(
                        updateURL([w EXCEPT !.selectedOrigin = airportCode],
                                  airportCode, "undefined"))
    IN  IF selected.currentMode = "flightTime" THEN updateFlightTimeView(selected)
        ELSE selected

\* clearOrigin without its switch back to the geographic view
clearOriginKeepsMode(w) ==
    updateAirportColors(updateURL([w EXCEPT !.selectedOrigin = "null"], "null", "undefined"))

\* MapRenderer.clearOrigin
clearOrigin(w) ==
    LET cleared == updateAirportColors(
                       updateURL([w EXCEPT !.selectedOrigin = "null"], "null", "undefined"))
    IN  IF cleared.currentMode = "flightTime"
        THEN transitionToGeographic([cleared EXCEPT !.currentMode = "geographic",
                                                    !.activeButtons = {"btn-distance"}])
        ELSE cleared

\* MapRenderer.setMode
setMode(w, mode) ==
    IF mode = w.currentMode THEN w
    ELSE IF mode = "geographic"
         THEN transitionToGeographic([w EXCEPT !.currentMode = mode])
    ELSE IF w.selectedOrigin = "null"
         THEN [w EXCEPT !.currentMode = "geographic", !.activeButtons = {"btn-distance"}]
    ELSE updateFlightTimeView([w EXCEPT !.currentMode = mode])

\* setVisualStyle without hideGhostStates
setVisualStyleKeepsGhost(w, style) ==
    IF style = w.visualStyle THEN w
    ELSE IF style = "rubberSheet"
         THEN LET ghost == [w EXCEPT !.visualStyle = style, !.ghostShown = TRUE]
              IN  IF ghost.currentMode = "flightTime"
                  THEN RubberSheetMode_update(activate(ghost))
                  ELSE ghost
    ELSE LET plain == [w EXCEPT !.visualStyle = style]
         IN  IF plain.currentMode = "flightTime" THEN deactivate(plain) ELSE plain

\* MapRenderer.setVisualStyle
setVisualStyle(w, style) ==
    IF style = w.visualStyle THEN w
    ELSE IF style = "rubberSheet"
         THEN LET ghost == [w EXCEPT !.visualStyle = style, !.ghostShown = TRUE]
              IN  IF ghost.currentMode = "flightTime"
                  THEN RubberSheetMode_update(activate(ghost))
                  ELSE ghost
    ELSE LET plain == [w EXCEPT !.visualStyle = style, !.ghostShown = FALSE]
         IN  IF plain.currentMode = "flightTime" THEN deactivate(plain) ELSE plain

\* Controls.setActiveButton on the two view-mode buttons
setActiveButton(w, activeBtn, inactiveBtn) ==
    [w EXCEPT !.activeButtons = (@ \cup {activeBtn}) \ {inactiveBtn}]

\* the change handler of the airport-filter select (Controls.initAirportFilter)
filterChanged(w, count) ==
    LET filtered == renderAirports(applyAirportFilter(w, count))
        checked ==
            IF filtered.selectedOrigin # "null" /\ getOriginIndex(filtered) = 0
            THEN [setMode([filtered EXCEPT !.selectedOrigin = "null"], "geographic")
                     EXCEPT !.activeButtons = {"btn-distance"}]
            ELSE filtered
    IN  IF checked.currentMode = "flightTime" /\ checked.selectedOrigin # "null"
        THEN updateFlightTimeView(checked)
        ELSE checked

\* completion timers that may be pending at once
MaxTimers == 2

\* the timer that runs next: the timers all wait CONFIG.transitionDuration + 300,
\* so they run in the order in which they were set
newestTimer(q) == Len(q)
nextTimer(q) == 1

\* the page after MapRenderer.init and Controls.init, no URL parameters given
PageLoaded ==
    LET w == renderAirports(applyAirportFilter(
                [selectedOrigin |-> "null", currentMode |-> "geographic",
                 visualStyle |-> "rubberSheet", airportFilter |-> airportCount,
                 airports |-> <<>>, geoPositions |-> <<>>, currentPositions |-> <<>>,
                 isActive |-> FALSE, isTransitioning |-> FALSE, timers |-> <<>>,
                 ghostShown |-> TRUE, activeButtons |-> {"btn-distance"},
                 circles |-> <<>>, message |-> FALSE, url |-> {},
                 lastRequest |-> [target |-> <<>>, interrupted |-> FALSE, pending |-> 0]],
                airportCount))
    IN  /\ selectedOrigin = w.selectedOrigin
        /\ currentMode = w.currentMode
        /\ visualStyle = w.visualStyle
        /\ airportFilter = w.airportFilter
        /\ airports = w.airports
        /\ geoPositions = w.geoPositions
        /\ currentPositions = w.currentPositions
        /\ isActive = w.isActive
        /\ isTransitioning = w.isTransitioning
        /\ timers = w.timers
        /\ ghostShown = w.ghostShown
        /\ activeButtons = w.activeButtons
        /\ circles = w.circles
        /\ message = w.message
        /\ url = w.url
        /\ lastRequest = w.lastRequest
        /\ heap = cache.matrix.matrix

\* the page's objects take the fields of w, the engine call is left alone
Becomes(world) ==
  \E w \in {world} :
    /\ Len(w.timers) <= MaxTimers
    /\ selectedOrigin' = w.selectedOrigin
    /\ currentMode' = w.currentMode
    /\ visualStyle' = w.visualStyle
    /\ airportFilter' = w.airportFilter
    /\ airports' = w.airports
    /\ geoPositions' = w.geoPositions
    /\ currentPositions' = w.currentPositions
    /\ isActive' = w.isActive
    /\ isTransitioning' = w.isTransitioning
    /\ timers' = w.timers
    /\ ghostShown' = w.ghostShown
    /\ activeButtons' = w.activeButtons
    /\ circles' = w.circles
    /\ message' = w.message
    /\ url' = w.url
    /\ lastRequest' = w.lastRequest
    /\ UNCHANGED heap
    /\ UNCHANGED pureVars

PageInit ==
    /\ call = [fn |-> "page"]
    /\ pc = "done"
    /\ ret = <<>>
    /\ PageLoaded

\* the origin select changes to one of its options (every loaded airport)
OriginSelectChange ==
    \E i \in 1..Len(allAirports) : Becomes(setOrigin(World, allAirports[i].code))

\* a click on an airport circle: select it, or deselect it if it is the origin
AirportClick ==
    \E i \in 1..Len(geoPositions) :
        IF selectedOrigin = geoPositions[i].code
        THEN Becomes(clearOrigin(World))
        ELSE Becomes(setOrigin(World, geoPositions[i].code))

\* the Escape key, an origin being selected
KeydownEscape ==
    /\ selectedOrigin # "null"
    /\ Becomes(clearOrigin(World))

\* a click on the Distance button
DistanceClick ==
    Becomes(setMode(setActiveButton(World, "btn-distance", "btn-flight-time"), "geographic"))

\* the click handler of the Flight Time button
flightTimeClicked(w) ==
    IF w.selectedOrigin = "null" THEN showMessage(w)
    ELSE setMode(setActiveButton(w, "btn-flight-time", "btn-distance"), "flightTime")

\* a click on the Flight Time button
FlightTimeClick == Becomes(flightTimeClicked(World))

\* a click on the Points Only button
PointsClick == Becomes(setVisualStyle(World, "points"))

\* a click on the Map Distortion button
RubberClick == Becomes(setVisualStyle(World, "rubberSheet"))

\* the airport-filter select changes
AirportFilterChange ==
    \E count \in FilterOptions : Becomes(filterChanged(World, count))

\* the next completion timer runs its callback
TimerFires ==
    /\ timers # <<>>
    /\ isTransitioning' = FALSE
    /\ currentPositions' = timers[nextTimer(timers)].target
    /\ timers' = [i \in 1..(Len(timers) - 1) |->
                     IF i < nextTimer(timers) THEN timers[i] ELSE timers[i + 1]]
    /\ UNCHANGED <<call, pc, ret, selectedOrigin, currentMode, visualStyle,
                   airportFilter, airports, geoPositions, isActive, ghostShown,
                   activeButtons, circles, message, url, lastRequest, heap>>

\* the message's two seconds are over: its timer removes it
MessageExpires ==
    /\ message
    /\ message' = FALSE
    /\ UNCHANGED <<call, pc, ret, selectedOrigin, currentMode, visualStyle,
                   airportFilter, airports, geoPositions, currentPositions, isActive,
                   isTransitioning, timers, ghostShown, activeButtons, circles, url,
                   lastRequest, heap>>

PageNext ==
    \/ OriginSelectChange
    \/ AirportClick
    \/ KeydownEscape
    \/ DistanceClick
    \/ FlightTimeClick
    \/ PointsClick
    \/ RubberClick
    \/ AirportFilterChange
    \/ TimerFires
    \/ MessageExpires

SpecPage == PageInit /\ [][PageNext]_vars

C13_FlightTimeNeedsOrigin ==
    /\ currentMode = "flightTime" => selectedOrigin # "null"
    /\ [][/\ currentMode' = "flightTime" => selectedOrigin' # "null"
          /\ (selectedOrigin = "null" /\ FlightTimeClick) =>
                 /\ currentMode' = "geographic"
                 /\ UNCHANGED <<timers, isTransitioning, geoPositions, currentPositions,
                                lastRequest>>]_vars

\* C13 witness: Flight Time was clicked with no origin selected (the message
\* of that click is still shown) on a page that has been in the flight-time
\* view before, and the view is geographic.
C13_Witness ==
    /\ message
    /\ selectedOrigin = "null"
    /\ currentMode = "geographic"
    /\ lastRequest.target # <<>>

\* the route classes a circle carries
routeClasses(circle) == circle.classes \cap {"direct", "connection"}

\* C14 as claimed: while an origin is selected every rendered airport but the
\* origin carries exactly one of "direct" and "connection" and the origin
\* neither, so that the classified airports number the visible ones minus one;
\* while none is selected no rendered airport carries either class.
C14_RouteClasses ==
    /\ selectedOrigin # "null" =>
          /\ \A i \in 1..Len(circles) :
                 IF circles[i].code = selectedOrigin
                 THEN routeClasses(circles[i]) = {}
                 ELSE Cardinality(routeClasses(circles[i])) = 1
          /\ Cardinality({ i \in 1..Len(circles) : routeClasses(circles[i]) # {} })
                 = Len(airports) - 1
    /\ selectedOrigin = "null" =>
          \A i \in 1..Len(circles) : routeClasses(circles[i]) = {}

\* where an airport lies on the undistorted map: its projection, the middle of
\* the viewport for an airport the projection does not cover
geographicPlace(airport) ==
    IF projects(airport) THEN projection(airport)
    ELSE Pt(Norm(Viewport.width, 2), Norm(Viewport.height, 2))

\* the visible airports of w are the first min(count, all) airports in rank
\* order, and geoPositions and currentPositions hold one entry for each
FilteredTo(w, count) ==
    /\ w.airportFilter = count
    /\ Len(w.airports) = (IF count < Len(allAirports) THEN count ELSE Len(allAirports))
    /\ \A i \in 1..Len(w.airports) : w.airports[i] = allAirports[i]
    /\ Len(w.geoPositions) = Len(w.airports)
    /\ Len(w.currentPositions) = Len(w.airports)
    /\ \A i \in 1..Len(w.airports) :
          /\ w.geoPositions[i].code = w.airports[i].code
          /\ Pt(w.geoPositions[i].geoX, w.geoPositions[i].geoY) = geographicPlace(w.airports[i])
          /\ w.currentPositions[i] = geographicPlace(w.airports[i])

\* every entry of geoPositions is drawn at its geographic place
DrawnGeographic(w) ==
    \A i \in 1..Len(w.geoPositions) :
        Pt(w.geoPositions[i].x, w.geoPositions[i].y) = geographicPlace(w.airports[i])

\* C15: applyAirportFilter(N), on whatever page state, leaves the first
\* min(N, all) airports visible, in rank order, with geoPositions and
\* currentPositions rebuilt, one entry per visible airport at its geographic
\* place; and that still holds when the filter's change handler returns,
\* except that a handler that restarts the flight-time view has by then moved
\* the drawn x, y of geoPositions towards the new layout.
C15_FilterRebuilds ==
    [][/\ \A count \in FilterOptions \cup {airportCount} :
             \A w \in {applyAirportFilter(World, count)} :
                 FilteredTo(w, count) /\ DrawnGeographic(w)
       /\ \/ \A w \in {World'} :
                 /\ FilteredTo(w, w.airportFilter)
                 /\ w.currentMode = "geographic" => DrawnGeographic(w)
          \/ ~AirportFilterChange]_vars

\* C15 witness: the filter was changed to 2 with three airports loaded: two
\* are visible, each with its entry, in the flight-time view of a visible
\* origin.
C15_Witness ==
    /\ airportFilter = 2
    /\ FilteredTo(World, 2)
    /\ Len(airports) < Len(allAirports)
    /\ currentMode = "flightTime"

\* C16: from the loaded page on, whatever style and mode changes were made,
\* the ghost states are rendered exactly while the visual style is
\* "rubberSheet".
C16_GhostIffRubberSheet == ghostShown <=> visualStyle = "rubberSheet"

\* C16 witness: the style went to Points Only and, in the flight-time view,
\* back to Map Distortion (which alone activates the rubber sheet), and the
\* ghost states are rendered again.
C16_Witness ==
    /\ visualStyle = "rubberSheet"
    /\ ghostShown
    /\ isActive
    /\ currentMode = "flightTime"

\* the origin parameters of the page URL
originParams == { p \in url : p.key = "origin" }

\* C17 as claimed: outside embed mode the URL's query string holds origin=code
\* while code is the selected origin and no origin parameter while none is.
C17_UrlNamesOrigin ==
    IF selectedOrigin = "null" THEN originParams = {}
    ELSE originParams = {[key |-> "origin", value |-> selectedOrigin]}

\* the origin is deselected: Escape, or a click on the origin's own circle
Deselect ==
    \/ KeydownEscape
    \/ \E i \in 1..Len(geoPositions) :
          selectedOrigin = geoPositions[i].code /\ Becomes(clearOrigin(World))

\* every visible airport at its geographic place
GeographicLayout == [i \in 1..Len(airports) |-> geographicPlace(airports[i])]

\* C18: deselecting the origin leaves selectedOrigin null; done in the
\* flight-time view it also makes currentMode "geographic" and requests one
\* transition, whose target (and whose completion callback's layout) puts
\* every airport at its geographic place.
C18_DeselectReturnsToMap ==
    [][(selectedOrigin # "null" /\ Deselect) =>
          /\ selectedOrigin' = "null"
          /\ currentMode = "flightTime" =>
                /\ currentMode' = "geographic"
                /\ isTransitioning'
                /\ Len(timers') = Len(timers) + 1
                /\ timers'[Len(timers')].target = GeographicLayout
                /\ lastRequest'.target = GeographicLayout
                /\ \A i \in 1..Len(geoPositions') :
                      Pt(geoPositions'[i].x, geoPositions'[i].y) = GeographicLayout[i]]_vars

\* C18 witness: no origin is selected, the view is geographic and a transition
\* to the geographic layout is running on top of one to a distorted layout
\* whose timer is still pending: the state Escape leaves in the flight-time view.
C18_Witness ==
    /\ selectedOrigin = "null"
    /\ currentMode = "geographic"
    /\ isTransitioning
    /\ Len(timers) = 2
    /\ timers[1].target # GeographicLayout
    /\ timers[2].target = GeographicLayout
    /\ lastRequest.target = GeographicLayout
    /\ lastRequest.interrupted
    /\ airportFilter = airportCount

\* ------------------------------------------- the radial distortion, alone
\* number of points handed to one call
MaxPoints == 3
\* largest whole travel time in an input row
MaxTime == 1

\* projected positions the inputs are drawn from
PointPool ==
    << Pt(Int2Num(0), Int2Num(0)), Pt(Norm(1, 2), Int2Num(0)),
       Pt(Int2Num(3), Int2Num(4)), Pt(Int2Num(6), Int2Num(8)) >>

\* travel times: whole minutes, or unreachable
TimePool == { Int2Num(t) : t \in 0..MaxTime } \cup { Infinity }

\* a geoPositions entry as applyAirportFilter builds it, its displayed (x, y)
\* moved off the geographic position as an earlier transition leaves it
GeoEntry(i, p) ==
    [code |-> i, x |-> Add(p.x, One), y |-> Add(p.y, One), geoX |-> p.x, geoY |-> p.y]

\* the travel-time matrix whose row o holds times (0 on the diagonal); the
\* other rows hold other values, the matrix need not be symmetric
MatrixOf(n, o, times) ==
    [i \in 1..n |-> [j \in 1..n |->
        IF i = j THEN Zero ELSE IF j = o THEN times[i] ELSE times[j]]]

RadialCalls ==
    \E n \in 1..MaxPoints :
      \E o \in 1..n :
        \E pts \in [1..n -> 1..Len(PointPool)], times \in [(1..n) \ {o} -> TimePool] :
          \* the destinations are interchangeable: only layouts that list
          \* them in pool order are drawn
          /\ \A i, j \in (1..n) \ {o} : i < j => pts[i] <= pts[j]
          /\ call = [fn |-> "computePositions",
                     travelTimes |-> MatrixOf(n, o, times),
                     geoPositions |-> [i \in 1..n |-> GeoEntry(i, PointPool[pts[i]])],
                     originIndex |-> o]
          /\ pc = "call"
          /\ ret = <<>>

\* one call of MDS.computePositions on the chosen inputs
CallComputePositions ==
    /\ call.fn = "computePositions"
    /\ pc = "call"
    /\ pc' = "done"
    /\ ret' = computePositions(call.travelTimes, call.geoPositions,
                               call.originIndex, Viewport)
    /\ UNCHANGED call
    /\ UNCHANGED pageVars

RadialInit == RadialCalls /\ PageLoaded

RadialNext == CallComputePositions

SpecRadial == RadialInit /\ [][RadialNext]_vars

\* ---------------------------------------- properties of the radial distortion
\* the inputs of the call and its result, once it has returned
RadialDone == pc = "done" /\ call.fn = "computePositions"
InGeo == call.geoPositions
InOrigin == call.originIndex
InTimes == call.travelTimes[call.originIndex]
Destinations == (1..Len(InGeo)) \ {InOrigin}
GeoOf(i) == Pt(InGeo[i].geoX, InGeo[i].geoY)

\* squared distance between two positions (exact)
Dist2(p, q) == Add(Mul(Sub(p.x, q.x), Sub(p.x, q.x)), Mul(Sub(p.y, q.y), Sub(p.y, q.y)))
\* p and q lie in the same direction from the position o (and neither is at o)
SameDirection(o, p, q) ==
    /\ Sub(Mul(Sub(p.x, o.x), Sub(q.y, o.y)), Mul(Sub(p.y, o.y), Sub(q.x, o.x))) = Zero
    /\ Gt(Add(Mul(Sub(p.x, o.x), Sub(q.x, o.x)), Mul(Sub(p.y, o.y), Sub(q.y, o.y))), Zero)
FiniteNonNegative(t) == isFinite(t) /\ Ge(t, Zero)
FinitePt(p) == isFinite(p.x) /\ isFinite(p.y)

\* C1: the origin's output position is exactly its geographic position
\* (geoX, geoY), whatever the matrix, the positions and the origin index.
C1_OriginIsFixedPivot ==
    RadialDone => ret[InOrigin] = GeoOf(InOrigin)

\* C1 witness: a call has returned for an origin whose displayed position
\* differs from its geographic one, among other points.
C1_Witness ==
    /\ RadialDone
    /\ Len(InGeo) >= 2
    /\ Pt(InGeo[InOrigin].x, InGeo[InOrigin].y) # GeoOf(InOrigin)
    /\ ret[InOrigin] = GeoOf(InOrigin)

\* C2 as claimed: every non-origin point with a finite, non-negative travel
\* time keeps its direction from the origin and ends at a strictly positive
\* distance from it.
C2_DirectionPreserved_AsClaimed ==
    RadialDone =>
        \A i \in Destinations :
            FiniteNonNegative(InTimes[i]) =>
                SameDirection(GeoOf(InOrigin), GeoOf(i), ret[i])

\* C2 amended: the same, for the points that are not at the origin's own
\* geographic position; a point co-located with the origin stays on it.
C2_DirectionPreserved ==
    RadialDone =>
        \A i \in Destinations :
            FiniteNonNegative(InTimes[i]) =>
                IF GeoOf(i) = GeoOf(InOrigin)
                THEN ret[i] = GeoOf(InOrigin)
                ELSE SameDirection(GeoOf(InOrigin), GeoOf(i), ret[i])

\* C2 witness: a destination with a finite time was moved along its ray.
C2_Witness ==
    /\ RadialDone
    /\ \E i \in Destinations :
          /\ FiniteNonNegative(InTimes[i])
          /\ ret[i] # GeoOf(i)
          /\ SameDirection(GeoOf(InOrigin), GeoOf(i), ret[i])

\* the input with every non-finite travel time replaced by 0
Reachable(t) == IF isFinite(t) THEN t ELSE Zero
OnlyReachable(travelTimes) ==
    [i \in 1..Len(travelTimes) |-> [j \in 1..Len(travelTimes[i]) |-> Reachable(travelTimes[i][j])]]

\* C3: an unreachable destination (non-finite travel time) is returned at its
\* geographic position; the call still returns one finite position per
\* point, and the positions of the reachable destinations are those the same
\* layout gets without the unreachable entries in its time scale.
C3_UnreachableStaysGeographic ==
    RadialDone =>
        /\ Len(ret) = Len(InGeo)
        /\ \A i \in Destinations :
              /\ ~isFinite(InTimes[i]) => ret[i] = GeoOf(i)
              /\ isFinite(InTimes[i]) =>
                    /\ FinitePt(ret[i])
                    /\ ret[i] = computeRadialPositions(OnlyReachable(call.travelTimes),
                                    InGeo, InOrigin, Viewport)[i]

\* C3 witness: one destination is unreachable and another one was distorted.
C3_Witness ==
    /\ RadialDone
    /\ \E i, j \in Destinations :
          /\ ~isFinite(InTimes[i]) /\ ret[i] = GeoOf(i) /\ GeoOf(i) # GeoOf(InOrigin)
          /\ isFinite(InTimes[j]) /\ ret[j] # GeoOf(j)

\* the geographic distance d, and the expected time d * (max_t / max_d)
InDist(i) == geoDistances(InGeo, InOrigin)[i]
InExpected(i) ==
    expectedTime(InDist(i), maxTime(InTimes), maxGeoDist(geoDistances(InGeo, InOrigin)))
\* the row holds a positive finite travel time, so that max_t exists
HasPositiveTime == \E j \in 1..Len(InTimes) : PositiveFiniteTime(InTimes[j])

PulledOrPushed(i) ==
    /\ Lt(InTimes[i], InExpected(i)) =>
          Lt(Dist2(ret[i], GeoOf(InOrigin)), Dist2(GeoOf(i), GeoOf(InOrigin)))
    /\ Gt(InTimes[i], InExpected(i)) =>
          Gt(Dist2(ret[i], GeoOf(InOrigin)), Dist2(GeoOf(i), GeoOf(InOrigin)))
    /\ InTimes[i] = InExpected(i) => ret[i] = GeoOf(i)

\* C4 as claimed: a point with finite time t at distance d >= 1 ends nearer
\* than d when t < expected, farther when t > expected, unmoved when equal.
C4_PulledOrPushed_AsClaimed ==
    RadialDone =>
        \A i \in Destinations :
            (isFinite(InTimes[i]) /\ Ge(InDist(i), One)) => PulledOrPushed(i)

\* C4 amended: that holds when the origin's row holds a positive finite
\* time; when it holds none, every such point ends at 0.4 d on its ray.
C4_PulledOrPushed ==
    RadialDone =>
        \A i \in Destinations :
            (isFinite(InTimes[i]) /\ Ge(InDist(i), One)) =>
                IF HasPositiveTime THEN PulledOrPushed(i)
                ELSE /\ SameDirection(GeoOf(InOrigin), GeoOf(i), ret[i])
                     /\ Dist2(ret[i], GeoOf(InOrigin))
                          = Mul(Norm(4, 25), Dist2(GeoOf(i), GeoOf(InOrigin)))

\* C4 witness: one call pulled a destination in and pushed another one out.
C4_Witness ==
    /\ RadialDone
    /\ HasPositiveTime
    /\ \E i, j \in Destinations :
          /\ isFinite(InTimes[i]) /\ Ge(InDist(i), One) /\ Lt(InTimes[i], InExpected(i))
          /\ Lt(Dist2(ret[i], GeoOf(InOrigin)), Dist2(GeoOf(i), GeoOf(InOrigin)))
          /\ isFinite(InTimes[j]) /\ Ge(InDist(j), One) /\ Gt(InTimes[j], InExpected(j))
          /\ Gt(Dist2(ret[j], GeoOf(InOrigin)), Dist2(GeoOf(j), GeoOf(InOrigin)))

\* ---------------------------------------------------- the mesh deformer, alone
\* number of airports (control points) of a mesh
MaxAirports == 2

\* where the airports of a mesh lie, and where they are sent
AirportPool == << Pt(Int2Num(10), Int2Num(10)), Pt(Int2Num(40), Int2Num(40)),
                  Pt(Int2Num(20), Int2Num(30)) >>
TargetPool == << Pt(Int2Num(10), Int2Num(10)), Pt(Int2Num(45), Int2Num(5)),
                 Pt(Int2Num(500), Int2Num(-300)) >>
\* the map sizes meshes are built for
BoundsPool == { [width |-> 50, height |-> 50], [width |-> 75, height |-> 50] }
InsidePool == { "absent", "everywhere", "nowhere" }

DeformCalls ==
    \E n \in 0..MaxAirports :
      \E at \in [1..n -> 1..Len(AirportPool)], to \in [1..n -> 1..Len(TargetPool)],
         bounds \in BoundsPool, isInsideUS \in InsidePool :
        /\ call = [fn |-> "deformMesh",
                   mesh |-> createMesh(
                       [i \in 1..n |-> [x |-> AirportPool[at[i]].x,
                                        y |-> AirportPool[at[i]].y, code |-> i]],
                       bounds, isInsideUS, [triangles |-> <<>>]),
                   airportTargets |-> [i \in 1..n |-> TargetPool[to[i]]],
                   airportOriginals |-> [i \in 1..n |-> AirportPool[at[i]]]]
        /\ pc = "call"
        /\ ret = <<>>

\* one call of MeshDeformer.deformMesh on the chosen mesh
CallDeformMesh ==
    /\ call.fn = "deformMesh"
    /\ pc = "call"
    /\ pc' = "done"
    /\ ret' = deformMesh(call.mesh, call.airportTargets, call.airportOriginals)
    /\ UNCHANGED call
    /\ UNCHANGED pageVars

DeformInit == DeformCalls /\ PageLoaded

DeformNext == CallDeformMesh

SpecDeform == DeformInit /\ [][DeformNext]_vars

DeformDone == pc = "done" /\ call.fn = "deformMesh"
MeshPoints == call.mesh.points
MeshIndices(type) == { i \in 1..Len(MeshPoints) : MeshPoints[i].type = type }

\* C7: deformMesh returns every boundary mesh point at exactly its original
\* (x, y), whatever the airports' targets and originals.
C7_BoundaryPointsFixed ==
    DeformDone =>
        \A i \in MeshIndices("boundary") : ret[i] = Pt(MeshPoints[i].x, MeshPoints[i].y)

\* C7 witness: an airport was sent hundreds of units away, a grid point
\* moved with it, and the mesh has boundary points, all returned in place.
C7_Witness ==
    /\ DeformDone
    /\ \E a \in MeshIndices("airport") :
          Gt(Dist2(ret[a], Pt(MeshPoints[a].x, MeshPoints[a].y)), Int2Num(10000))
    /\ \E g \in MeshIndices("grid") : ret[g] # Pt(MeshPoints[g].x, MeshPoints[g].y)
    /\ MeshIndices("boundary") # {}
    /\ \A b \in MeshIndices("boundary") : ret[b] = Pt(MeshPoints[b].x, MeshPoints[b].y)

\* C8: deformMesh returns one position per mesh point, in mesh order, and
\* the position of every airport mesh point is its supplied target
\* airportTargets[point.index].
C8_AirportsReachTargets ==
    DeformDone =>
        /\ Len(ret) = Len(MeshPoints)
        /\ \A i \in MeshIndices("airport") :
              ret[i] = Pt(call.airportTargets[MeshPoints[i].index].x,
                          call.airportTargets[MeshPoints[i].index].y)

\* C8 witness: two airports with different targets, both displaced, were
\* returned at their targets among the other mesh points.
C8_Witness ==
    /\ DeformDone
    /\ Cardinality(MeshIndices("airport")) >= 2
    /\ Len(ret) > Cardinality(MeshIndices("airport"))
    /\ call.airportTargets[1] # call.airportTargets[2]
    /\ \A i \in MeshIndices("airport") :
          /\ ret[i] = call.airportTargets[MeshPoints[i].index]
          /\ ret[i] # Pt(MeshPoints[i].x, MeshPoints[i].y)

\* ------------------------------------------- interpolatePosition, alone
\* originals of the control points: two of them half a unit apart
ControlPool == << Pt(Int2Num(10), Int2Num(10)), Pt(Norm(21, 2), Int2Num(10)),
                  Pt(Int2Num(40), Int2Num(40)) >>
\* query points that are no control point's original
QueryPool == { Pt(Int2Num(25), Int2Num(25)), Pt(Norm(41, 4), Int2Num(10)) }
PowerPool == { interpolationPower, Int2Num(2) }

InterpolateCalls ==
    \E n \in 0..MaxAirports :
      \E at \in [1..n -> 1..Len(ControlPool)], to \in [1..n -> 1..Len(TargetPool)],
         power \in PowerPool :
        \E point \in QueryPool \cup { ControlPool[at[i]] : i \in 1..n } :
          /\ call = [fn |-> "interpolatePosition",
                     point |-> point,
                     originals |-> [i \in 1..n |-> ControlPool[at[i]]],
                     targets |-> [i \in 1..n |-> TargetPool[to[i]]],
                     power |-> power]
          /\ pc = "call"
          /\ ret = <<>>

\* one call of MeshDeformer.interpolatePosition on the chosen inputs
CallInterpolatePosition ==
    /\ call.fn = "interpolatePosition"
    /\ pc = "call"
    /\ pc' = "done"
    /\ ret' = interpolatePosition(call.point, call.originals, call.targets, call.power)
    /\ UNCHANGED call
    /\ UNCHANGED pageVars

InterpolateInit == InterpolateCalls /\ PageLoaded

InterpolateNext == CallInterpolatePosition

SpecInterpolate == InterpolateInit /\ [][InterpolateNext]_vars

InterpolateDone == pc = "done" /\ call.fn = "interpolatePosition"
Controls == 1..Len(call.originals)
\* the control points whose original is less than 1 away from control i's
Within1(i) ==
    { j \in Controls :
        Lt(Hypot(Sub(call.originals[j].x, call.originals[i].x),
                 Sub(call.originals[j].y, call.originals[i].y)), One) }
LowestOf(S) == CHOOSE j \in S : \A k \in S : j <= k

\* C9 as claimed: a query at control point i's original position returns
\* exactly control point i's target, for every set of control points.
C9_SnapsToOwnTarget_AsClaimed ==
    InterpolateDone =>
        \A i \in Controls :
            call.point = Pt(call.originals[i].x, call.originals[i].y) =>
                ret = Pt(call.targets[i].x, call.targets[i].y)

\* C9 amended: such a query returns the target of the lowest-indexed control
\* point whose original is less than 1 unit from control point i's original;
\* that is control point i's own target when no earlier one is that close.
C9_SnapsToFirstCloseTarget ==
    InterpolateDone =>
        \A i \in Controls :
            call.point = Pt(call.originals[i].x, call.originals[i].y) =>
                /\ ret = Pt(call.targets[LowestOf(Within1(i))].x,
                            call.targets[LowestOf(Within1(i))].y)
                /\ (\A j \in Within1(i) : j >= i) =>
                      ret = Pt(call.targets[i].x, call.targets[i].y)

\* C9 witness: the query sits on the second control point's original, no
\* earlier control point is close, and its displaced target came back.
C9_Witness ==
    /\ InterpolateDone
    /\ Len(call.originals) >= 2
    /\ call.point = call.originals[2]
    /\ Within1(2) = {2}
    /\ call.targets[2] # call.originals[2]
    /\ call.targets[2] # call.targets[1]
    /\ ret = call.targets[2]

\* ------------------------------------ barycentric point location, alone
\* number of triangles the triangulation of a mesh is given with
MaxTriangles == 1

\* the vertices and query points barycentricCoords is called with
VertexPool == { Pt(Int2Num(0), Int2Num(0)), Pt(Int2Num(4), Int2Num(0)),
                Pt(Int2Num(0), Int2Num(3)), Pt(Int2Num(2), Int2Num(2)),
                Pt(Int2Num(8), Int2Num(0)) }

\* the mesh transformPoint is called with: one airport on a 50 x 50 map
LocateMesh(tris) ==
    createMesh(<< [x |-> Int2Num(20), y |-> Int2Num(30), code |-> 1] >>,
               [width |-> 50, height |-> 50], "absent", [triangles |-> tris])
\* triangles over the airport and the three points of the top edge
CornerTriples ==
    { t \in [1..3 -> 1..4] : t[1] # t[2] /\ t[1] # t[3] /\ t[2] # t[3] }
\* the triangle lists of at most n triangles
TriangleLists(n) == UNION { [1..m -> CornerTriples] : m \in 0..n }
LocateQueryPool ==
    { Pt(Int2Num(20), Int2Num(30)), Pt(Int2Num(0), Int2Num(0)), Pt(Int2Num(25), Int2Num(0)),
      Pt(Int2Num(50), Int2Num(0)), Pt(Int2Num(20), Int2Num(10)), Pt(Int2Num(30), Int2Num(45)) }

\* a mesh over a 50 x 50 map on which no airport is shown
BareMesh(tris) ==
    createMesh(<<>>, [width |-> 50, height |-> 50], "absent", [triangles |-> tris])

BarycentricCalls ==
    \/ \E p0 \in VertexPool, p1 \in VertexPool, p2 \in VertexPool, q \in VertexPool :
          /\ call = [fn |-> "barycentricCoords", px |-> q.x, py |-> q.y,
                     p0 |-> p0, p1 |-> p1, p2 |-> p2]
          /\ pc = "call"
          /\ ret = <<>>
    \/ \E tris \in TriangleLists(MaxTriangles), to \in 1..Len(TargetPool),
          q \in LocateQueryPool :
          /\ call = [fn |-> "transformPoint", x |-> q.x, y |-> q.y,
                     mesh |-> LocateMesh(tris),
                     originalPositions |-> [i \in 1..Len(LocateMesh(tris).points) |->
                         Pt(LocateMesh(tris).points[i].x, LocateMesh(tris).points[i].y)],
                     deformedPositions |-> deformMesh(LocateMesh(tris),
                         << TargetPool[to] >>, << Pt(Int2Num(20), Int2Num(30)) >>)]
          /\ pc = "call"
          /\ ret = <<>>
    \/ \E tris \in TriangleLists(MaxTriangles), q \in LocateQueryPool :
          /\ call = [fn |-> "transformPoint", x |-> q.x, y |-> q.y,
                     mesh |-> BareMesh(tris),
                     originalPositions |-> [i \in 1..Len(BareMesh(tris).points) |->
                         Pt(BareMesh(tris).points[i].x, BareMesh(tris).points[i].y)],
                     deformedPositions |-> deformMesh(BareMesh(tris), <<>>, <<>>)]
          /\ pc = "call"
          /\ ret = <<>>

\* one call of MeshDeformer.barycentricCoords
CallBarycentricCoords ==
    /\ call.fn = "barycentricCoords"
    /\ pc = "call"
    /\ pc' = "done"
    /\ ret' = barycentricCoords(call.px, call.py, call.p0, call.p1, call.p2)
    /\ UNCHANGED call
    /\ UNCHANGED pageVars

\* one call of MeshDeformer.transformPoint
CallTransformPoint ==
    /\ call.fn = "transformPoint"
    /\ pc = "call"
    /\ pc' = "done"
    /\ ret' = transformPoint(call.x, call.y, call.mesh,
                             call.originalPositions, call.deformedPositions)
    /\ UNCHANGED call
    /\ UNCHANGED pageVars

BarycentricInit == BarycentricCalls /\ PageLoaded

BarycentricNext == CallBarycentricCoords \/ CallTransformPoint

SpecBarycentric == BarycentricInit /\ [][BarycentricNext]_vars

\* twice the signed area of the triangle (p0, p1, p2)
Area2(p0, p1, p2) ==
    Sub(Mul(Sub(p1.x, p0.x), Sub(p2.y, p0.y)), Mul(Sub(p1.y, p0.y), Sub(p2.x, p0.x)))
Weights(u, v, w) == [u |-> Int2Num(u), v |-> Int2Num(v), w |-> Int2Num(w)]
FirstTriangle == call.mesh.delaunay.triangles[1]

\* C10: in a triangle of non-zero area the coordinates of p0, p1, p2 are
\* (1,0,0), (0,1,0), (0,0,1), u + v + w = 1 for every query point, and u, v, w
\* weigh p0, p1, p2 in that order where transformPoint applies them: a query
\* at a vertex of the triangle is sent to that vertex's deformed position.
C10_BarycentricAtVertices ==
    /\ (pc = "done" /\ call.fn = "barycentricCoords"
            /\ Area2(call.p0, call.p1, call.p2) # Zero) =>
          /\ Pt(call.px, call.py) = call.p0 => ret = Weights(1, 0, 0)
          /\ Pt(call.px, call.py) = call.p1 => ret = Weights(0, 1, 0)
          /\ Pt(call.px, call.py) = call.p2 => ret = Weights(0, 0, 1)
          /\ Add(Add(ret.u, ret.v), ret.w) = One
    /\ (pc = "done" /\ call.fn = "transformPoint" /\ call.mesh.delaunay.triangles # <<>>
            /\ Area2(call.mesh.points[FirstTriangle[1]], call.mesh.points[FirstTriangle[2]],
                     call.mesh.points[FirstTriangle[3]]) # Zero) =>
          \A k \in 1..3 :
              Pt(call.x, call.y) = call.originalPositions[FirstTriangle[k]] =>
                  ret = call.deformedPositions[FirstTriangle[k]]

\* C10 witness: a query at the vertex p2 of a proper triangle got (0,0,1).
C10_Witness ==
    /\ pc = "done" /\ call.fn = "barycentricCoords"
    /\ Area2(call.p0, call.p1, call.p2) # Zero
    /\ Pt(call.px, call.py) = call.p2
    /\ ret = Weights(0, 0, 1)

\* ------------------------------------------------ the out-of-hull fallback
\* the scan of the finished transformPoint call ended at no triangle
NoTriangleFound ==
    /\ pc = "done"
    /\ call.fn = "transformPoint"
    /\ containingTriangle(call.x, call.y, call.mesh) = 0

\* C11 as claimed: whatever the number of airport control points of the
\* mesh, a query for which no containing triangle is found is returned as
\* a finite (x, y).
C11_FallbackIsFinite == NoTriangleFound => FinitePt(ret)

\* --------------------------------------------- the zero-area triangle
\* the triangle of the finished barycentricCoords call has no area
DegenerateCall ==
    /\ pc = "done"
    /\ call.fn = "barycentricCoords"
    /\ Area2(call.p0, call.p1, call.p2) = Zero

\* the finished transformPoint call ran over triangles none of which has area
OnlyDegenerateTriangles ==
    /\ pc = "done"
    /\ call.fn = "transformPoint"
    /\ call.mesh.delaunay.triangles # <<>>
    /\ \A t \in 1..Len(call.mesh.delaunay.triangles) :
          Area2(call.mesh.points[call.mesh.delaunay.triangles[t][1]],
                call.mesh.points[call.mesh.delaunay.triangles[t][2]],
                call.mesh.points[call.mesh.delaunay.triangles[t][3]]) = Zero

\* what the call returns when there is no triangle to look in: the
\* inverse-distance path
WithoutTriangles ==
    transformPoint(call.x, call.y, [call.mesh EXCEPT !.delaunay.triangles = <<>>],
                   call.originalPositions, call.deformedPositions)

\* transformPoint over zero-area triangles answers as with no triangle at all
C20_DegenerateFallsBack == OnlyDegenerateTriangles => ret = WithoutTriangles

\* C20 as claimed: barycentricCoords answers a zero-area triangle with a
\* failure, not with weights that are NaN or infinite, and transformPoint then
\* takes the inverse-distance path.
C20_DegenerateSignalled ==
    /\ DegenerateCall => isFinite(ret.u) /\ isFinite(ret.v) /\ isFinite(ret.w)
    /\ C20_DegenerateFallsBack

\* --------------------------------------------- viewport fitting, alone
\* Math.min(...list): Infinity for an empty list, NaN if any entry is NaN
RECURSIVE MathMin(_)
MathMin(list) ==
    IF list = <<>> THEN Infinity
    ELSE LET h == Head(list)
             m == MathMin(Tail(list))
         IN  IF IsNaN(h) \/ IsNaN(m) THEN NaN ELSE IF Lt(h, m) THEN h ELSE m

\* range || 1
rangeAsIs(range) == range
rangeOrOne(range) == IF range = Zero \/ IsNaN(range) THEN One ELSE range

\* scale = Math.min(xScale, yScale)
fitScale(xRange, yRange, width, height, padding) ==
    MathMin(<< Div(Int2Num(width - 2 * padding), xRange),
               Div(Int2Num(height - 2 * padding), yRange) >>)

\* xOffset = (width - xRange * scale) / 2 - xMin * scale, and yOffset alike
fitOffset(size, range, min, scale) ==
    Sub(Div(Sub(Int2Num(size), Mul(range, scale)), Int2Num(2)), Mul(min, scale))

\* positions.map(p => ({x: p[0] * scale + xOffset, y: p[1] * scale + yOffset}))
placeAll(positions, scale, xOffset, yOffset) ==
    [i \in 1..Len(positions) |->
        Pt(Add(Mul(positions[i][1], scale), xOffset),
           Add(Mul(positions[i][2], scale), yOffset))]

\* scaleToViewport once the scale is known
scaleWith(positions, scale, xMin, xRange, yMin, yRange, width, height) ==
    placeAll(positions, scale, fitOffset(width, xRange, xMin, scale),
                               fitOffset(height, yRange, yMin, scale))

\* scaleToViewport once the extent of the positions is known
scaleWithin(positions, xMin, xRange, yMin, yRange, width, height, padding) ==
    scaleWith(positions, fitScale(xRange, yRange, width, height, padding),
              xMin, xRange, yMin, yRange, width, height)

\* MDS.scaleToViewport(positions, width, height, padding); a position is the
\* pair (p[0], p[1])
scaleToViewport(positions, width, height, padding) ==
    IF Len(positions) = 0 THEN <<>>
    ELSE LET xValues == [i \in 1..Len(positions) |-> positions[i][1]]
             yValues == [i \in 1..Len(positions) |-> positions[i][2]]
         IN  scaleWithin(positions,
                         MathMin(xValues), rangeOrOne(Sub(MathMax(xValues), MathMin(xValues))),
                         MathMin(yValues), rangeOrOne(Sub(MathMax(yValues), MathMin(yValues))),
                         width, height, padding)

\* number of positions handed to one call
MaxPositions == 2

\* the coordinates the positions are drawn from, and the viewports: the
\* renderer's, one exactly two paddings wide, one narrower than two paddings
CoordinatePool == { Int2Num(-3), Int2Num(0), Norm(15, 2) }
ViewportPool ==
    { [width |-> 975, height |-> 610, padding |-> 60],
      [width |-> 120, height |-> 200, padding |-> 60],
      [width |-> 300, height |-> 100, padding |-> 50],
      [width |-> 100, height |-> 300, padding |-> 60] }

ViewportCalls ==
    \E n \in 0..MaxPositions :
      \E positions \in [1..n -> CoordinatePool \X CoordinatePool], viewport \in ViewportPool :
        /\ call = [fn |-> "scaleToViewport", positions |-> positions, viewport |-> viewport]
        /\ pc = "call"
        /\ ret = <<>>

\* one call of MDS.scaleToViewport on the chosen inputs
CallScaleToViewport ==
    /\ call.fn = "scaleToViewport"
    /\ pc = "call"
    /\ pc' = "done"
    /\ ret' = scaleToViewport(call.positions, call.viewport.width,
                              call.viewport.height, call.viewport.padding)
    /\ UNCHANGED call
    /\ UNCHANGED pageVars

ViewportInit == ViewportCalls /\ PageLoaded

ViewportNext == CallScaleToViewport

SpecViewport == ViewportInit /\ [][ViewportNext]_vars

ViewportDone == pc = "done" /\ call.fn = "scaleToViewport"
Between(lo, a, hi) == Ge(a, Int2Num(lo)) /\ Ge(Int2Num(hi), a)
AllCoincide ==
    /\ Len(call.positions) >= 2
    /\ \A i \in 1..Len(call.positions) : call.positions[i] = call.positions[1]

\* C12: for finite input positions and a viewport at least two paddings wide
\* and high, scaleToViewport returns one finite point per input point (no
\* division by zero, also when all points coincide or share a coordinate),
\* each within [padding, width - padding] x [padding, height - padding].
C12_FitsInsidePadding ==
    (/\ ViewportDone
     /\ call.viewport.width >= 2 * call.viewport.padding
     /\ call.viewport.height >= 2 * call.viewport.padding) =>
        /\ Len(ret) = Len(call.positions)
        /\ \A i \in 1..Len(ret) :
              /\ FinitePt(ret[i])
              /\ Between(call.viewport.padding, ret[i].x,
                         call.viewport.width - call.viewport.padding)
              /\ Between(call.viewport.padding, ret[i].y,
                         call.viewport.height - call.viewport.padding)

\* C12 witness: two coincident points were fitted into the renderer's
\* viewport and came out finite, inside the padding.
C12_Witness ==
    /\ ViewportDone
    /\ AllCoincide
    /\ call.viewport.width = 975
    /\ FinitePt(ret[1])
    /\ ret[2] = ret[1]
    /\ Between(call.viewport.padding, ret[1].x, call.viewport.width - call.viewport.padding)


\* ------------------------------------------- inputs that disagree in shape
\* what the layout code reads from a row of the matrix for count positions:
\* an element past the row's end reads as undefined, which compares and tests
\* as NaN does (undefined > 0 and isFinite(undefined) are false)
timesRead(row, count) ==
    [i \in 1..(IF count > Len(row) THEN count ELSE Len(row)) |->
        IF i <= Len(row) THEN row[i] ELSE NaN]

\* how a call ends: with the value it returns, or with the exception it throws
Returned(value) == [threw |-> "nothing", value |-> value]
Threw(error) == [threw |-> error, value |-> <<>>]

\* MDS.computePositions on arguments of any shape: origin.geoX throws when
\* the positions have no entry at originIndex, timesFromOrigin.filter throws
\* when travelTimes has no row there (positions is the source's geoPositions)
computePositionsOfAnyShape(travelTimes, positions, originIndex, viewport) ==
    IF originIndex \notin 1..Len(positions) THEN Threw("TypeError")
    ELSE IF originIndex \notin 1..Len(travelTimes) THEN Threw("TypeError")
    ELSE Returned(computePositions(
                      [travelTimes EXCEPT ![originIndex] = timesRead(@, Len(positions))],
                      positions, originIndex, viewport))

\* PointsMode.update for the visible airports codes, up to the layout it
\* hands to the transition (none when it returns early)
targetPositions(codes, positions, selected) ==
    IF selected = "null" THEN Returned(<<>>)
    ELSE IF indexOf(codes, selected) = 0 THEN Returned(<<>>)
    ELSE computePositionsOfAnyShape(getSubMatrix(codes), positions,
                                    indexOf(codes, selected), Viewport)

\* airport codes the calls draw from: those of the matrix and one it lacks
ShapeCodePool == << "DEN", "ORD", "XXX", "HNL" >>

\* a square matrix of m airports, one minute between any two
UnitMatrix(m) == [i \in 1..m |-> [j \in 1..m |-> IF i = j THEN Zero ELSE One]]

ShapeCalls ==
    \/ \E n \in 1..MaxPoints :
         \E picked \in [1..n -> 1..Len(ShapeCodePool)], o \in 1..n :
           /\ \A i, j \in 1..n : i # j => picked[i] # picked[j]
           /\ call = [fn |-> "update",
                      codes |-> [i \in 1..n |-> ShapeCodePool[picked[i]]],
                      geoPositions |-> [i \in 1..n |->
                          GeoEntry(ShapeCodePool[picked[i]], PointPool[picked[i]])],
                      selected |-> ShapeCodePool[picked[o]]]
           /\ pc = "call"
           /\ ret = <<>>
    \/ \E n \in 1..MaxPoints, m \in 0..MaxPoints :
         \E o \in 0..(n + 1) :
           /\ call = [fn |-> "computePositionsOfAnyShape",
                      travelTimes |-> UnitMatrix(m),
                      geoPositions |-> [i \in 1..n |->
                          GeoEntry(i, PointPool[(i % Len(PointPool)) + 1])],
                      originIndex |-> o]
           /\ pc = "call"
           /\ ret = <<>>

\* one run of PointsMode.update up to its layout
CallUpdate ==
    /\ call.fn = "update"
    /\ pc = "call"
    /\ pc' = "done"
    /\ ret' = targetPositions(call.codes, call.geoPositions, call.selected)
    /\ UNCHANGED call
    /\ UNCHANGED pageVars

\* one call of MDS.computePositions on arguments of any shape
CallComputePositionsOfAnyShape ==
    /\ call.fn = "computePositionsOfAnyShape"
    /\ pc = "call"
    /\ pc' = "done"
    /\ ret' = computePositionsOfAnyShape(call.travelTimes, call.geoPositions,
                                         call.originIndex, Viewport)
    /\ UNCHANGED call
    /\ UNCHANGED pageVars

ShapeInit == ShapeCalls /\ PageLoaded

ShapeNext == CallUpdate \/ CallComputePositionsOfAnyShape

SpecShape == ShapeInit /\ [][ShapeNext]_vars

\* the inputs of the finished call disagree in shape: a visible airport's code
\* is absent from the matrix, a matrix row is shorter than the position list
\* (or there are fewer rows than positions), or the origin index is outside
\* the position list
Misshapen ==
    /\ pc = "done"
    /\ \/ /\ call.fn = "update"
          /\ \E i \in 1..Len(call.codes) : indexOf(cache.matrix.airports, call.codes[i]) = 0
       \/ /\ call.fn = "computePositionsOfAnyShape"
          /\ \/ call.originIndex \notin 1..Len(call.geoPositions)
             \/ Len(call.travelTimes) < Len(call.geoPositions)
             \/ \E r \in 1..Len(call.travelTimes) :
                   Len(call.travelTimes[r]) < Len(call.geoPositions)

\* C19 as claimed: on inputs that disagree in shape the layout computation
\* ends with an error, never with positions.
C19_ShapeMismatchFails == Misshapen => ret.threw # "nothing"


\* ------------------------------------------------------ warpPoint, alone
\* the animation parameters t the tween is sampled at
TweenPool == { Zero, Norm(1, 2), One }

WarpCalls ==
    \E n \in 0..MaxAirports :
      \E at \in [1..n -> 1..Len(ControlPool)], to \in [1..n -> 1..Len(TargetPool)],
         t \in TweenPool :
        \E point \in QueryPool \cup { ControlPool[at[i]] : i \in 1..n } :
          /\ call = [fn |-> "warpPoint",
                     x |-> point.x, y |-> point.y,
                     originalPositions |-> [i \in 1..n |-> ControlPool[at[i]]],
                     targetPositions |-> [i \in 1..n |-> TargetPool[to[i]]],
                     t |-> t]
          /\ pc = "call"
          /\ ret = <<>>

\* one call of RubberSheetMode.warpPoint on the chosen inputs
CallWarpPoint ==
    /\ call.fn = "warpPoint"
    /\ pc = "call"
    /\ pc' = "done"
    /\ ret' = warpPoint(call.x, call.y, call.originalPositions, call.targetPositions, call.t)
    /\ UNCHANGED call
    /\ UNCHANGED pageVars

WarpInit == WarpCalls /\ PageLoaded

WarpNext == CallWarpPoint

SpecWarp == WarpInit /\ [][WarpNext]_vars

WarpDone == pc = "done" /\ call.fn = "warpPoint"

\* C21 as claimed: at t = 0 warpPoint returns the sample point (x, y) itself,
\* whatever the sample point and the control points.
C21_WarpAtZeroIsIdentity ==
    (WarpDone /\ call.t = Zero) => ret = Pt(call.x, call.y)

\* C22: at t = 1 warpPoint returns what MeshDeformer.interpolatePosition
\* returns for the same point and controls with CONFIG.rubberSheet's
\* interpolationPower, also for a point less than 1 away from a control point.
C22_WarpAtOneIsInterpolate ==
    (WarpDone /\ call.t = One) =>
        ret = interpolatePosition(Pt(call.x, call.y), call.originalPositions,
                                  call.targetPositions, interpolationPower)

\* C22 witness: at t = 1 a point that is no control point's original, less
\* than 1 from one control and far from another that moves elsewhere, was
\* warped, and moved.
C22_Witness ==
    /\ WarpDone
    /\ call.t = One
    /\ Len(call.originalPositions) = 2
    /\ firstCloseControl(Pt(call.x, call.y), call.originalPositions) # 0
    /\ \A i \in 1..2 : Pt(call.x, call.y) # call.originalPositions[i]
    /\ ret # Pt(call.x, call.y)
    /\ ret = interpolatePosition(Pt(call.x, call.y), call.originalPositions,
                                 call.targetPositions, interpolationPower)


\* ------------------------------------------------------- sanitize, alone
\* rows of the matrices handed to sanitize (each row has two entries)
MaxRows == 2

\* the entries: travel times, and the three non-finite values
EntryPool == { Zero, One, Int2Num(2), Infinity, NegInfinity, NaN }

SanitizeCalls ==
    \E r \in 0..MaxRows :
      \E distances \in [1..r -> [1..2 -> EntryPool]] :
        /\ call = [fn |-> "sanitize", distances |-> distances]
        /\ pc = "call"
        /\ ret = <<>>

\* one call of MDS.sanitize on the chosen matrix
CallSanitize ==
    /\ call.fn = "sanitize"
    /\ pc = "call"
    /\ pc' = "done"
    /\ ret' = sanitize(call.distances)
    /\ UNCHANGED call
    /\ UNCHANGED pageVars

SanitizeInit == SanitizeCalls /\ PageLoaded

SanitizeNext == CallSanitize

SpecSanitize == SanitizeInit /\ [][SanitizeNext]_vars

SanitizeDone == pc = "done" /\ call.fn = "sanitize"
\* the positions of the input matrix, and its finite entries
Cells == { <<i, j>> \in (1..Len(call.distances)) \X (1..2) : TRUE }
FiniteEntries == { call.distances[c[1]][c[2]] : c \in { d \in Cells : isFinite(call.distances[d[1]][d[2]]) } }
\* the largest finite entry, 0 when no entry is finite
LargestFinite ==
    IF FiniteEntries = {} THEN Zero
    ELSE CHOOSE m \in FiniteEntries : \A f \in FiniteEntries : Ge(m, f)

\* the result has the input's shape, keeps every finite entry and holds 1.5
\* times the largest finite entry wherever the input is not finite
SanitizedAsSpecified ==
    /\ Len(ret) = Len(call.distances)
    /\ \A i \in 1..Len(ret) : Len(ret[i]) = Len(call.distances[i])
    /\ \A c \in Cells :
          /\ isFinite(ret[c[1]][c[2]])
          /\ IF isFinite(call.distances[c[1]][c[2]])
             THEN ret[c[1]][c[2]] = call.distances[c[1]][c[2]]
             ELSE ret[c[1]][c[2]] = Mul(LargestFinite, Norm(3, 2))

\* every replaced entry is strictly larger than every finite entry of the input
ReplacedExceedFinite ==
    \A c \in Cells :
        ~isFinite(call.distances[c[1]][c[2]]) =>
            \A f \in FiniteEntries : Gt(ret[c[1]][c[2]], f)

\* C23 as claimed: the result keeps shape and finite entries, holds 1.5 times
\* the largest finite entry in place of each non-finite one, and so every
\* replaced entry is strictly larger than every real distance of the matrix.
C23_SanitizeExceeds_AsClaimed ==
    SanitizeDone => SanitizedAsSpecified /\ ReplacedExceedFinite

\* C23 amended: the result keeps shape and finite entries and holds 1.5 times
\* the largest finite entry (0 when there is none) in place of each non-finite
\* one, so it is finite throughout; the replaced entries are strictly larger
\* than every finite entry when some finite entry is positive, and equal to the
\* finite entries (all 0) otherwise.
C23_SanitizeReplaces ==
    SanitizeDone =>
        /\ SanitizedAsSpecified
        /\ Gt(LargestFinite, Zero) => ReplacedExceedFinite
        /\ ~Gt(LargestFinite, Zero) =>
              \A c \in Cells : ret[c[1]][c[2]] = Zero

\* C23 witness: a matrix holding Infinity, NaN and the times 1 and 2 was
\* sanitized: 3 stands where the input was not finite.
C23_Witness ==
    /\ SanitizeDone
    /\ Len(call.distances) = 2
    /\ call.distances[1] = << One, Infinity >>
    /\ call.distances[2] = << NaN, Int2Num(2) >>
    /\ ret = << << One, Int2Num(3) >>, << Int2Num(3), Int2Num(2) >> >>

\* the full-matrix travel time between two codes the matrix knows
fullMatrixTime(fromCode, toCode) ==
    cache.matrix.matrix[indexOf(cache.matrix.airports, fromCode)]
                       [indexOf(cache.matrix.airports, toCode)]

\* m has one row and one column per code, in the order of codes, and holds
\* the full-matrix travel time wherever the matrix knows both codes
PerCode(m, codes) ==
    /\ Len(m) = Len(codes)
    /\ \A i \in 1..Len(codes) : Len(m[i]) = Len(codes)
    /\ \A i, j \in 1..Len(codes) :
          (indexOf(cache.matrix.airports, codes[i]) # 0
           /\ indexOf(cache.matrix.airports, codes[j]) # 0)
             => m[i][j] = fullMatrixTime(codes[i], codes[j])

\* C25 as claimed: for every list of codes getSubMatrix answers a matrix with
\* one row and one column per listed code in the listed order, entry [i][j]
\* the full-matrix travel time from codes[i] to codes[j], so that position i
\* of the layout is computed from the time between the origin and airport i.
C25_SubMatrixPerCode ==
    (pc = "done" /\ call.fn = "update") => PerCode(getSubMatrix(call.codes), call.codes)

\* the claim's case on lists of codes the matrix knows (where it holds)
C25_KnownCodesPerCode ==
    (pc = "done" /\ call.fn = "update"
     /\ \A i \in 1..Len(call.codes) : indexOf(cache.matrix.airports, call.codes[i]) # 0)
        => PerCode(getSubMatrix(call.codes), call.codes)

\* ------------------------------------------- the cached matrix in memory
\* An array of arrays is the list of the places its rows have in the heap; the
\* operations below take the heap and answer the heap they leave together
\* with the value they return.

MaxCopies == 2

\* cache.matrix.matrix: its rows are the first arrays of the heap
cacheMatrix == [i \in 1..Len(cache.matrix.matrix) |-> i]

\* the rows an array of arrays refers to
deref(h, m) == [i \in 1..Len(m) |-> h[m[i]]]

\* Array.prototype.map on an array of arrays: the rows it builds are new arrays
allocate(h, rows) ==
    [heap |-> h \o rows, value |-> [i \in 1..Len(rows) |-> Len(h) + i]]

\* an operation that only reads
reading(h, value) == [heap |-> h, value |-> value]

\* DataLoader.getTravelTime(fromCode, toCode)
getTravelTime(h, fromCode, toCode) ==
    IF indexOf(cache.matrix.airports, fromCode) = 0
       \/ indexOf(cache.matrix.airports, toCode) = 0
    THEN reading(h, "null")
    ELSE reading(h, h[cacheMatrix[indexOf(cache.matrix.airports, fromCode)]]
                     [indexOf(cache.matrix.airports, toCode)])

\* DataLoader.getMatrixRow(originCode): the cached row itself, or a new empty array
getMatrixRow(h, originCode) ==
    IF indexOf(cache.matrix.airports, originCode) = 0 THEN reading(h, << >>)
    ELSE reading(h, << cacheMatrix[indexOf(cache.matrix.airports, originCode)] >>)

\* DataLoader.getSubMatrix(): the cached array of arrays itself
getWholeMatrix(h) == reading(h, cacheMatrix)

\* DataLoader.getSubMatrix(airportCodes): new arrays holding the entries read
getSubMatrixOf(h, airportCodes) ==
    LET indices == SelectSeq([i \in 1..Len(airportCodes) |->
                                 indexOf(cache.matrix.airports, airportCodes[i])], Found)
    IN  allocate(h, [i \in 1..Len(indices) |->
                       [j \in 1..Len(indices) |-> h[cacheMatrix[indices[i]]][indices[j]]]])

\* MDS.sanitize(distances) on the array of arrays distances
sanitizeAt(h, distances) == allocate(h, sanitize(deref(h, distances)))

\* a powerScale that writes the scaled entries into the rows it was given
powerScaleInPlace(h, distances, power) ==
    [heap |-> [r \in 1..Len(h) |->
                  IF \E i \in 1..Len(distances) : distances[i] = r
                  THEN powerScale(<< h[r] >>, power)[1]
                  ELSE h[r]],
     value |-> distances]

\* MDS.powerScale(distances, power) on the array of arrays distances
powerScaleAt(h, distances, power) == allocate(h, powerScale(deref(h, distances), power))

\* MDS.computePositions(travelTimes, geoPositions, originIndex, viewport) on
\* the array of arrays travelTimes
computePositionsAt(h, travelTimes, positions, originIndex, viewport) ==
    reading(h, computePositionsOfAnyShape(deref(h, travelTimes), positions,
                                          originIndex, viewport))

\* the code lists the loader is asked for
CodeListPool == { << "DEN", "ORD" >>, << "HNL", "DEN", "ORD" >>, << "ORD", "XXX" >> }

\* the heap may hold MaxCopies more matrices than the cached one
Fits(result) == Len(result.heap) <= Len(cache.matrix.matrix) * (1 + MaxCopies)

\* the call made, its result held by the caller, the heap it leaves
Answers(fn, kind, result) ==
    /\ Fits(result)
    /\ call' = [fn |-> fn]
    /\ ret' = [kind |-> kind, value |-> result.value]
    /\ heap' = result.heap
    /\ UNCHANGED <<pc, selectedOrigin, currentMode, visualStyle, airportFilter,
                   airports, geoPositions, currentPositions, isActive,
                   isTransitioning, timers, ghostShown, activeButtons, circles,
                   message, url, lastRequest>>

CallGetTravelTime ==
    \E fromCode \in { "DEN", "XXX" }, toCode \in { "ORD", "HNL" } :
        Answers("getTravelTime", "value", getTravelTime(heap, fromCode, toCode))

CallGetMatrixRow ==
    \E originCode \in { "DEN", "ORD", "XXX" } :
        Answers("getMatrixRow", "row", getMatrixRow(heap, originCode))

CallGetWholeMatrix == Answers("getSubMatrix", "matrix", getWholeMatrix(heap))

CallGetSubMatrixOf ==
    \E airportCodes \in CodeListPool :
        Answers("getSubMatrix", "matrix", getSubMatrixOf(heap, airportCodes))

\* the engine's operations, called on the matrix the last call answered
CallSanitizeAt ==
    /\ ret.kind = "matrix"
    /\ Answers("sanitize", "matrix", sanitizeAt(heap, ret.value))

CallPowerScaleAt ==
    /\ ret.kind = "matrix"
    /\ Answers("powerScale", "matrix", powerScaleAt(heap, ret.value, Norm(1, 2)))

CallComputePositionsAt ==
    /\ ret.kind = "matrix"
    /\ Answers("computePositions", "layout",
               computePositionsAt(heap, ret.value,
                                  [i \in 1..Len(ret.value) |-> GeoEntry(i, PointPool[i])],
                                  1, Viewport))

CacheInit ==
    /\ call = [fn |-> "loadMatrix"]
    /\ pc = "call"
    /\ ret = [kind |-> "value", value |-> "undefined"]
    /\ PageLoaded

CacheNext ==
    \/ CallGetTravelTime
    \/ CallGetMatrixRow
    \/ CallGetWholeMatrix
    \/ CallGetSubMatrixOf
    \/ CallSanitizeAt
    \/ CallPowerScaleAt
    \/ CallComputePositionsAt

SpecCache == CacheInit /\ [][CacheNext]_vars

\* C24: no operation of the engine or the loader (computePositions, sanitize,
\* powerScale, getSubMatrix, getMatrixRow, getTravelTime) modifies the cached
\* travel-time matrix: after any sequence of them, also on the arrays the
\* loader itself answered, cache.matrix.matrix holds the entries that were loaded.
C24_CacheUntouched == deref(heap, cacheMatrix) = cache.matrix.matrix

\* C24 witness: powerScale was called on the cached array of arrays itself and
\* answered three new rows, the square roots of the cached times.
C24_Witness ==
    /\ call.fn = "powerScale"
    /\ Len(heap) = 2 * Len(cache.matrix.matrix)
    /\ ret.value = << 4, 5, 6 >>
    /\ heap[4] = powerScale(cache.matrix.matrix, Norm(1, 2))[1]
    /\ heap[4] # heap[1]

\* ------------------------------------------ the page: layouts and timers
\* the layout the airports are drawn at
DisplayedLayout == [i \in 1..Len(geoPositions) |-> Pt(geoPositions[i].x, geoPositions[i].y)]

\* C26 as claimed: whenever no completion timer is pending, currentPositions
\* has one entry per visible airport and entry i is the displayed position of
\* airport i; the callback of an older transition never leaves an outdated
\* layout behind.
C26_CurrentIsDisplayed ==
    timers = <<>> =>
        /\ Len(currentPositions) = Len(airports)
        /\ \A i \in 1..Len(currentPositions) :
              /\ currentPositions[i].x = DisplayedLayout[i].x
              /\ currentPositions[i].y = DisplayedLayout[i].y

\* C27 as claimed: isTransitioning is true at every moment at which some
\* transition's completion timer is still pending (so a request arriving then
\* takes the interrupt branch); it becomes false only when the most recently
\* started transition completes.
C27_FlagWhilePending == timers # <<>> => isTransitioning

\* ------------------------------------------ transition and setPositions, alone
\* a setPositions that moves the geographic coordinates along
setPositionsMovesGeo(w, positions) ==
    [w EXCEPT !.geoPositions =
        [i \in 1..Len(w.geoPositions) |->
            IF i <= Len(positions)
            THEN [w.geoPositions[i] EXCEPT !.x = positions[i].x, !.y = positions[i].y,
                                           !.geoX = positions[i].x, !.geoY = positions[i].y]
            ELSE w.geoPositions[i]]]

\* TransitionManager.setPositions(positions)
setPositions(w, positions) ==
    [w EXCEPT !.geoPositions =
        [i \in 1..Len(w.geoPositions) |->
            IF i <= Len(positions)
            THEN [w.geoPositions[i] EXCEPT !.x = positions[i].x, !.y = positions[i].y]
            ELSE w.geoPositions[i]]]

\* the layouts handed to transition and setPositions: as many entries as
\* there are airports, fewer, or more
LayoutPool ==
    { << Pt(Int2Num(0), Int2Num(0)), Pt(Int2Num(50), Int2Num(60)), Pt(Int2Num(7), Int2Num(7)) >>,
      << Pt(Int2Num(50), Int2Num(60)), Pt(Int2Num(0), Int2Num(0)) >>,
      << Pt(Int2Num(7), Int2Num(7)), Pt(Int2Num(7), Int2Num(7)), Pt(Int2Num(0), Int2Num(0)),
         Pt(Int2Num(50), Int2Num(60)) >>,
      << >> }

\* one call of TransitionManager.transition with a callback as the callers pass it
CallTransition == \E layout \in LayoutPool : Becomes(transition(World, layout))

\* one call of TransitionManager.setPositions
CallSetPositions == \E layout \in LayoutPool : Becomes(setPositions(World, layout))

PositionsNext == CallTransition \/ CallSetPositions \/ TimerFires

SpecPositions == PageInit /\ [][PositionsNext]_vars

\* the positions applyAirportFilter projects for the airports shown
FreshPositions == applyAirportFilter(World, airportFilter).geoPositions

\* C28: transition and setPositions change only the displayed coordinates x
\* and y of the geoPositions entries: after any sequence of them geoX, geoY
\* and the airport's identity are those projected at filter time, and the
\* distortion computed for any origin is the one computed from freshly
\* projected positions.
C28_OnlyDisplayedCoordinatesMove ==
    /\ Len(geoPositions) = Len(FreshPositions)
    /\ \A i \in 1..Len(geoPositions) :
          /\ geoPositions[i].geoX = FreshPositions[i].geoX
          /\ geoPositions[i].geoY = FreshPositions[i].geoY
          /\ geoPositions[i].code = FreshPositions[i].code
    /\ \A o \in 1..Len(geoPositions) :
          computePositions(getCurrentMatrix(World), geoPositions, o, Viewport)
              = computePositions(getCurrentMatrix(World), FreshPositions, o, Viewport)

\* C28 witness: a transition to one layout is pending and setPositions has
\* since drawn the airports at another, away from their geographic places.
C28_Witness ==
    /\ Len(timers) = 1
    /\ timers[1].target = << Pt(Int2Num(50), Int2Num(60)), Pt(Int2Num(0), Int2Num(0)) >>
    /\ geoPositions[1].x = Int2Num(0)
    /\ geoPositions[2].x = Int2Num(50)
    /\ geoPositions[3].x = Int2Num(7)
    /\ geoPositions[1].geoX = Int2Num(100)

\* ------------------------------------------ the page: origin, mode, buttons
\* C29 as claimed: whenever currentMode is "flightTime", selectedOrigin is the
\* code of one of the visible (filtered) airports, after any sequence of
\* origin selections, filter changes and mode switches.
C29_OriginVisibleInFlightTime ==
    currentMode = "flightTime" => getOriginIndex(World) # 0

\* C30 as claimed: after initialisation (URL-parameter and embed-mode start-up
\* included) and after every UI action, the Flight Time button carries class
\* "active" exactly when currentMode is "flightTime", and the Distance button
\* exactly when it is "geographic".
C30_ButtonsShowMode ==
    /\ ("btn-flight-time" \in activeButtons) <=> (currentMode = "flightTime")
    /\ ("btn-distance" \in activeButtons) <=> (currentMode = "geographic")

\* ------------------------------------------------------ start-up (app.js)
\* the URL parameters initApp reads: airports 0 stands for no (or no numeric)
\* airports parameter, "null" for a parameter that is absent
OriginParams == { "null", "DEN", "HNL", "ZZZ" }
ModeParams == { "null", "flightTime" }
AirportsParams == { 0, 2, 5 }

\* the query parameters of a location with the parameters p
locationOf(p) ==
    { [key |-> "origin", value |-> p.origin] : o \in { p.origin } \ { "null" } }
    \cup { [key |-> "mode", value |-> p.mode] : m \in { p.mode } \ { "null" } }
    \cup { [key |-> "airports", value |-> ToString(p.airports)] : n \in { p.airports } \ { 0 } }
    \cup { [key |-> "embed", value |-> "true"] : e \in { p.embed } \ { FALSE } }
    \cup { [key |-> "waitForViewport", value |-> "true"] : v \in { p.waitForViewport } \ { FALSE } }

\* the two lines that follow each setMode('flightTime') of app.js
flightTimeButtons(w) ==
    [w EXCEPT !.activeButtons = (@ \ { "btn-distance" }) \cup { "btn-flight-time" }]

\* initApp, step 1: the airport filter
applyFilterParam(w, p) ==
    IF p.airports \in FilterOptions THEN renderAirports(applyAirportFilter(w, p.airports))
    ELSE w

\* initApp, step 2: the origin
applyOriginParam(w, p) ==
    IF p.origin # "null" /\ \E i \in 1..Len(allAirports) : allAirports[i].code = p.origin
    THEN setOrigin(w, p.origin)
    ELSE w

\* initApp, step 4: the view mode
applyModeParam(w, p) ==
    IF p.mode = "flightTime" /\ w.selectedOrigin # "null"
    THEN flightTimeButtons(setMode(w, "flightTime"))
    ELSE w

\* initApp in embed mode: the morph at once, unless it waits for the viewport
applyEmbed(w, p) ==
    IF p.embed /\ p.origin # "null" /\ ~p.waitForViewport
    THEN flightTimeButtons(setMode(w, "flightTime"))
    ELSE w

\* window.startMorph
startMorph(w) ==
    IF w.currentMode # "flightTime" THEN flightTimeButtons(setMode(w, "flightTime"))
    ELSE w

\* the page's objects take the fields of w
Takes(world) ==
  \E w \in {world} :
    /\ Len(w.timers) <= MaxTimers
    /\ selectedOrigin' = w.selectedOrigin
    /\ currentMode' = w.currentMode
    /\ visualStyle' = w.visualStyle
    /\ airportFilter' = w.airportFilter
    /\ airports' = w.airports
    /\ geoPositions' = w.geoPositions
    /\ currentPositions' = w.currentPositions
    /\ isActive' = w.isActive
    /\ isTransitioning' = w.isTransitioning
    /\ timers' = w.timers
    /\ ghostShown' = w.ghostShown
    /\ activeButtons' = w.activeButtons
    /\ circles' = w.circles
    /\ message' = w.message
    /\ url' = w.url
    /\ lastRequest' = w.lastRequest
    /\ UNCHANGED heap

\* the page is loaded at a location with some parameters
StartupInit ==
    \E origin \in OriginParams, mode \in ModeParams, count \in AirportsParams,
       embed \in BOOLEAN, waitForViewport \in BOOLEAN :
        /\ call = [fn |-> "initApp",
                   urlParams |-> [origin |-> origin, mode |-> mode, airports |-> count,
                                  embed |-> embed, waitForViewport |-> waitForViewport]]
        /\ pc = "call"
        /\ ret = <<>>
        /\ PageLoaded

\* initApp from the URL parameters on (the url holds the location's
\* parameters from here on)
ApplyURLParams ==
    /\ pc = "call"
    /\ call.fn = "initApp"
    /\ pc' = "done"
    /\ UNCHANGED <<call, ret>>
    /\ \E filtered \in { applyFilterParam([World EXCEPT !.url = locationOf(call.urlParams)],
                                          call.urlParams) } :
         \E chosen \in { applyOriginParam(filtered, call.urlParams) } :
           \E moded \in { applyModeParam(chosen, call.urlParams) } :
             Takes(applyEmbed(moded, call.urlParams))

\* the embedding page calls window.startMorph (defined in embed mode when an
\* origin parameter is given)
StartMorph ==
    /\ pc = "done"
    /\ call.urlParams.embed
    /\ call.urlParams.origin # "null"
    /\ Becomes(startMorph(World))

\* the view-mode buttons are shown: not in embed mode without an origin parameter
ViewModeShown == ~(call.urlParams.embed /\ call.urlParams.origin = "null")

StartupNext ==
    \/ ApplyURLParams
    \/ StartMorph
    \/ pc = "done" /\ ViewModeShown /\ DistanceClick
    \/ pc = "done" /\ ViewModeShown /\ FlightTimeClick
    \/ pc = "done" /\ AirportClick
    \/ pc = "done" /\ TimerFires

SpecStartup == StartupInit /\ [][StartupNext]_vars

====
